---- MODULE Spec2Model ----
(***************************************************************************)
(* Telegram-Monitor: the persistence gateway (telegram_client/db.py), the  *)
(* message ingestor and the media download scheduler                       *)
(* (telegram_client/main.py), as a state machine over the relational store *)
(* and the scheduler's in-memory task sets.                                *)
(*                                                                         *)
(* Every SQL statement of db.py is one atomic step on the tables.  The     *)
(* synchronous stretches of main.py (no await between two statements) are  *)
(* one action; an exception inside such a stretch is the parameter that    *)
(* says after which statement the stretch stopped.                         *)
(***************************************************************************)
EXTENDS Integers, Sequences, FiniteSets, TLC

VARIABLES
    messages,          \* table messages: a set of rows
    message_log,       \* table message_log: rows in insertion order
    download_queue,    \* table download_queue: rows in insertion order, id = position
    chat_preferences,  \* table chat_preferences: (chat_id, account_phone) -> <<>> | <<BOOLEAN>>
    config,            \* the process: account (TG_PHONE), download flag, max_mb, and the
                       \* concurrency and stop_when_empty given to process_download_queue
    sched,             \* process_download_queue: its position
    tasks,             \* process_download_queue: the set `tasks`
    tasks_recent,      \* process_download_queue: the set `tasks_recent` (task ids)
    now,               \* CURRENT_TIMESTAMP, a logical clock
    gaps,              \* the last get_chat_gaps call: its arguments and its result
    ingested,          \* history: identities whose insert succeeded at least once
    transfers,         \* history: queue ids for which download_media was invoked
    requeued,          \* history: natural keys enqueue_download was called for again
    platform,          \* the platform: the message ids it holds for chat 100
    catchups,          \* _catch_up_chat_background tasks created and not yet run, per (chat, account)
    reactions,         \* table reactions: rows (msg_id, chat_id, account_phone, emoji, count)
    entities,          \* table entities: rows (msg_id, chat_id, account_phone, entity_type, ...)
    submissions,       \* the calls of handler / process_with_limit: position, retry_count, wake-up time
    schema,            \* the tables and columns the database has, of those db.py validates
    state              \* run_listener: the dict `state` of state.json, chat_id -> last_id

msgVars   == <<messages, message_log, ingested>>
queueVars == <<download_queue, chat_preferences, transfers, requeued>>
schedVars == <<sched, tasks, tasks_recent>>
vars      == <<messages, message_log, download_queue, chat_preferences, config, sched,
               tasks, tasks_recent, now, gaps, ingested, transfers, requeued, platform,
               catchups, reactions, entities, submissions, schema, state>>

(***************************************************************************)
(* Values.  SQL NULL is the string NULL in text columns and the empty      *)
(* tuple in numeric columns (a known number n is <<n>>).                   *)
(***************************************************************************)
NULL == "NULL"
NoInt == <<>>
Known(n) == <<n>>
IsKnown(x) == x # <<>>
Val(x) == x[1]

Accounts == {"A", "B"}
Chats == {100, 200}

Min(S) == CHOOSE x \in S : \A y \in S : x <= y
Max(S) == CHOOSE x \in S : \A y \in S : x >= y

RECURSIVE SortedAsc(_)
SortedAsc(S) == IF S = {} THEN <<>> ELSE <<Min(S)>> \o SortedAsc(S \ {Min(S)})

Range(s) == {s[i] : i \in 1..Len(s)}

\* F applied to the value of v, which is computed once.
With(v, F(_)) == CHOOSE r \in {F(x) : x \in {v}} : TRUE

(***************************************************************************)
(* Table messages                                                          *)
(***************************************************************************)
Identity(r) == <<r.chat_id, r.msg_id, r.account_phone>>

RowsOf(tbl, chat_id, msg_id, account_phone) ==
    {r \in tbl : Identity(r) = <<chat_id, msg_id, account_phone>>}

\* insert_message that keeps what is stored when a message of a higher id of
\* the chat is persisted already.
insert_message_ascending(tbl, row) ==
    IF \E r \in tbl : /\ r.chat_id = row.chat_id
                       /\ r.account_phone = row.account_phone
                       /\ r.msg_id > row.msg_id
    THEN tbl
    ELSE (tbl \ {r \in tbl : <<r.chat_id, r.msg_id, r.account_phone>>
                                 = <<row.chat_id, row.msg_id, row.account_phone>>}) \cup {row}

\* insert_message without its ON CONFLICT clause: a plain INSERT.
insert_message_plain(tbl, row) == tbl \cup {row}

\* INSERT ... ON CONFLICT (chat_id, msg_id, account_phone) DO UPDATE SET <every
\* column of the VALUES list except the key> = EXCLUDED.<column>.  text stands
\* for the content columns (sender_id, text, forward and reply metadata, views,
\* flags), all of which the statement overwrites alike.  media_file_path is in
\* the SET list; has_log and created_at too.
insert_message(tbl, row) ==
    LET old == RowsOf(tbl, row.chat_id, row.msg_id, row.account_phone)
    IN  (tbl \ old) \cup {row}

\* mark_message_unrecoverable as an upsert that overwrites an existing row.
mark_message_unrecoverable_overwrite(tbl, chat_id, msg_id, account_phone, reason, ts) ==
    (tbl \ RowsOf(tbl, chat_id, msg_id, account_phone)) \cup
        {[msg_id |-> msg_id, chat_id |-> chat_id, account_phone |-> account_phone,
          text |-> reason, media_type |-> "unrecoverable", media_file_path |-> NULL,
          edit_date |-> NoInt, has_log |-> FALSE, created_at |-> ts]}

\* INSERT placeholder ... ON CONFLICT (chat_id, msg_id, account_phone) DO NOTHING
mark_message_unrecoverable(tbl, chat_id, msg_id, account_phone, reason, ts) ==
    IF RowsOf(tbl, chat_id, msg_id, account_phone) # {}
    THEN tbl
    ELSE tbl \cup
        {[msg_id |-> msg_id, chat_id |-> chat_id, account_phone |-> account_phone,
          text |-> reason, media_type |-> "unrecoverable", media_file_path |-> NULL,
          edit_date |-> NoInt, has_log |-> FALSE, created_at |-> ts]}

\* SELECT MAX(msg_id) ...; `result["max"] if result and result["max"] else 0`
get_max_message_id_in_chat(tbl, chat_id, account_phone) ==
    LET ids == {r.msg_id : r \in {x \in tbl : x.chat_id = chat_id /\ x.account_phone = account_phone}}
    IN  IF ids = {} THEN 0 ELSE Max(ids)

(***************************************************************************)
(* get_chat_gaps                                                           *)
(***************************************************************************)
\* The CTE message_sequence: msg_id with LAG(msg_id) OVER (ORDER BY msg_id).
message_sequence(tbl, chat_id, account_phone) ==
    LET ids == {r.msg_id : r \in {x \in tbl : x.chat_id = chat_id /\ x.account_phone = account_phone}}
        s == SortedAsc(ids)
    IN  [i \in 1..Len(s) |->
            [msg_id |-> s[i], prev_msg_id |-> IF i = 1 THEN NoInt ELSE Known(s[i - 1])]]

\* The outer SELECT with gap_end = msg_id instead of msg_id - 1.
gap_rows_inclusive_end(tbl, chat_id, account_phone) ==
    LET ms == message_sequence(tbl, chat_id, account_phone)
    IN  {[gap_start |-> Val(ms[i].prev_msg_id) + 1,
          gap_end |-> ms[i].msg_id,
          gap_size |-> ms[i].msg_id - Val(ms[i].prev_msg_id) - 1] :
            i \in {j \in 1..Len(ms) : IsKnown(ms[j].prev_msg_id)
                                      /\ ms[j].msg_id - Val(ms[j].prev_msg_id) > 1}}

\* The outer SELECT: WHERE prev_msg_id IS NOT NULL AND msg_id - prev_msg_id > 1.
gap_rows(tbl, chat_id, account_phone) ==
    LET ms == message_sequence(tbl, chat_id, account_phone)
    IN  {[gap_start |-> Val(ms[i].prev_msg_id) + 1,
          gap_end |-> ms[i].msg_id - 1,
          gap_size |-> ms[i].msg_id - Val(ms[i].prev_msg_id) - 1] :
            i \in {j \in 1..Len(ms) : IsKnown(ms[j].prev_msg_id)
                                      /\ ms[j].msg_id - Val(ms[j].prev_msg_id) > 1}}

\* ORDER BY gap_size DESC: every order of the rows with sizes not increasing;
\* the order among rows of one size is the database's choice.
RECURSIVE OrderBySizeDesc(_)
OrderBySizeDesc(S) ==
    IF S = {} THEN {<<>>}
    ELSE UNION {{<<x>> \o t : t \in OrderBySizeDesc(S \ {x})} :
                    x \in {y \in S : \A z \in S : y.gap_size >= z.gap_size}}

Limit(s, n) == With(s, LAMBDA rows : SubSeq(rows, 1, IF Len(rows) < n THEN Len(rows) ELSE n))

\* The set of results get_chat_gaps may return.
get_chat_gaps(tbl, chat_id, account_phone, limit) ==
    {Limit(s, limit) : s \in OrderBySizeDesc(gap_rows(tbl, chat_id, account_phone))}

(***************************************************************************)
(* Table message_log                                                       *)
(***************************************************************************)
\* The key of message_log: (telegram_msg_id, chat_id, account_phone,
\* created_at), the identity of a MessageLogEntry.  The table's definition is
\* in postgres/init_db.sql.
MessageLogKey(entry) ==
    <<entry.telegram_msg_id, entry.chat_id, entry.account_phone, entry.created_at>>

\* message_log without a key: no INSERT is refused.
no_unique_violation(log, entry) == FALSE

\* The INSERT of `entry` is refused: a row of its key is in the table.
unique_violation(log, entry) ==
    \E i \in 1..Len(log) : MessageLogKey(log[i]) = MessageLogKey(entry)

\* INSERT INTO message_log ...; UPDATE messages SET has_log = TRUE WHERE key.
\* Both statements are one transaction (one commit).
insert_message_log_tables(tbl, log, entry) ==
    [messages |->
        {IF Identity(r) = <<entry.chat_id, entry.telegram_msg_id, entry.account_phone>>
         THEN [r EXCEPT !.has_log = TRUE] ELSE r : r \in tbl},
     message_log |-> Append(log, entry)]

(***************************************************************************)
(* Platform events.  An event is the Message payload of NewMessage or of   *)
(* iter_messages: the ingestor reads chat_id, id, text, media, date,       *)
(* edit_date, file.size and file.unique_id from it.                        *)
(***************************************************************************)
MaxMsgId == 2
MaxLog == 3

Texts == {"t1", "t2"}

\* Text-only events of SpecMsg: every id of chat 100 in two versions of content.
TextEvents ==
    {[chat_id |-> 100, id |-> i, text |-> t, media |-> NULL, date |-> 1,
      edit_date |-> IF t = "t1" THEN NoInt ELSE Known(2),
      file_size |-> NoInt, file_unique_id |-> NULL] : i \in 1..MaxMsgId, t \in Texts}

\* The row _process_message hands to insert_message: media_file_path = None,
\* has_log = False, created_at = message.date.
MessageRow(ev, account_phone) ==
    [msg_id |-> ev.id, chat_id |-> ev.chat_id, account_phone |-> account_phone,
     text |-> ev.text, media_type |-> ev.media, media_file_path |-> NULL,
     edit_date |-> ev.edit_date, has_log |-> FALSE, created_at |-> ev.date]

\* The log row when every version is written as an original.
LogRow_unedited(ev, account_phone, edited) ==
    [telegram_msg_id |-> ev.id, chat_id |-> ev.chat_id, account_phone |-> account_phone,
     text |-> ev.text, media_type |-> ev.media, media_file_path |-> NULL,
     edited |-> FALSE, edit_date |-> ev.edit_date, created_at |-> ev.date]

LogRow(ev, account_phone, edited) ==
    [telegram_msg_id |-> ev.id, chat_id |-> ev.chat_id, account_phone |-> account_phone,
     text |-> ev.text, media_type |-> ev.media, media_file_path |-> NULL,
     edited |-> edited, edit_date |-> ev.edit_date, created_at |-> ev.date]

\* Where the database stretch of _process_message may raise: nowhere, in
\* insert_message, or in insert_message_log.  The except clause logs and the
\* function goes on to the media and gap steps.
StopPoints == {"none", "insert_message", "insert_message_log"}

\* The tables after the database stretch of _process_message.  An INSERT
\* that violates the key of message_log raises like any other failure of
\* insert_message_log: the except clause logs it.
ProcessMessageDb(tbl, log, ev, account_phone, stop) ==
    IF stop = "insert_message"
    THEN [messages |-> tbl, message_log |-> log]
    ELSE LET t1 == insert_message(tbl, MessageRow(ev, account_phone))
         IN  IF \/ stop = "insert_message_log"
                \/ unique_violation(log, LogRow(ev, account_phone, FALSE))
             THEN [messages |-> t1, message_log |-> log]
             ELSE insert_message_log_tables(t1, log, LogRow(ev, account_phone, FALSE))

(***************************************************************************)
(* Table chat_preferences                                                  *)
(***************************************************************************)
\* COALESCE(cp.media_download_enabled, TRUE) over the LEFT JOIN row, and
\* is_media_download_enabled: `bool(row["enabled"]) if row else True`.
is_media_download_enabled_always(prefs, chat_id, account_phone) == TRUE

is_media_download_enabled(prefs, chat_id, account_phone) ==
    LET cp == prefs[<<chat_id, account_phone>>]
    IN  IF cp = <<>> THEN TRUE ELSE cp[1]

(***************************************************************************)
(* Table download_queue.  Row id is the position in the sequence: ids are  *)
(* handed out in insertion order and rows are never deleted.               *)
(***************************************************************************)
ErrorLimit == 500

NaturalKey(r) == <<r.chat_id, r.msg_id, r.account_phone>>

HasKey(q, chat_id, msg_id, account_phone) ==
    \E i \in 1..Len(q) : NaturalKey(q[i]) = <<chat_id, msg_id, account_phone>>

NewQueueRow(q, ev, account_phone, ts) ==
    [id |-> Len(q) + 1, msg_id |-> ev.id, chat_id |-> ev.chat_id,
     account_phone |-> account_phone, file_size |-> ev.file_size,
     file_unique_id |-> ev.file_unique_id, status |-> "pending", attempts |-> 0,
     path |-> NULL, error |-> NULL, created_at |-> ts, updated_at |-> ts]

\* enqueue_download with ON CONFLICT ... DO UPDATE SET status = 'pending'.
enqueue_download_requeue(q, ev, account_phone, ts) ==
    IF HasKey(q, ev.chat_id, ev.id, account_phone)
    THEN [i \in 1..Len(q) |->
            IF NaturalKey(q[i]) = <<ev.chat_id, ev.id, account_phone>>
            THEN [q[i] EXCEPT !.status = "pending", !.updated_at = ts] ELSE q[i]]
    ELSE Append(q, NewQueueRow(q, ev, account_phone, ts))

\* INSERT INTO download_queue (...) ON CONFLICT (chat_id, msg_id, account_phone)
\* DO NOTHING.  status, attempts, path, error and the timestamps take the
\* column defaults.
enqueue_download(q, ev, account_phone, ts) ==
    IF HasKey(q, ev.chat_id, ev.id, account_phone)
    THEN q
    ELSE Append(q, NewQueueRow(q, ev, account_phone, ts))

\* The pending queries when they also select the rows that failed.
PendingEligible_with_failed(q, prefs, account_phone) ==
    {i \in 1..Len(q) :
        /\ q[i].status \in {"pending", "failed"}
        /\ is_media_download_enabled(prefs, q[i].chat_id, q[i].account_phone)
        /\ (account_phone # NULL => q[i].account_phone = account_phone)}

\* WHERE dq.status = 'pending' AND COALESCE(cp.media_download_enabled, TRUE) = TRUE
\* [AND dq.account_phone = %s]: the last only `if account_phone:`.
PendingEligible(q, prefs, account_phone) ==
    {i \in 1..Len(q) :
        /\ q[i].status = "pending"
        /\ is_media_download_enabled(prefs, q[i].chat_id, q[i].account_phone)
        /\ (account_phone # NULL => q[i].account_phone = account_phone)}

\* The ORDER BY without its first term: dq.created_at <dir>, dq.id <dir>.
OrderKey_by_age(r, dir) == <<0, 0, dir * r.created_at, dir * r.id>>

\* ORDER BY dq.file_size ASC NULLS LAST, dq.created_at <dir>, dq.id <dir>
\* as a key compared left to right; dir = 1 is ASC, dir = -1 is DESC.
\* The key whose last column is id ascending in both lanes.
OrderKey_id_ascending(r, dir) ==
    <<IF IsKnown(r.file_size) THEN 0 ELSE 1,
      IF IsKnown(r.file_size) THEN Val(r.file_size) ELSE 0,
      dir * r.created_at,
      r.id>>

OrderKey(r, dir) ==
    <<IF IsKnown(r.file_size) THEN 0 ELSE 1,
      IF IsKnown(r.file_size) THEN Val(r.file_size) ELSE 0,
      dir * r.created_at,
      dir * r.id>>

KeyLess(a, b) ==
    \E k \in 1..4 : a[k] < b[k] /\ \A j \in 1..(k - 1) : a[j] = b[j]

RECURSIVE OrderByKey(_, _, _)
OrderByKey(q, ids, dir) ==
    IF ids = {} THEN <<>>
    ELSE With(CHOOSE i \in ids :
                 \A j \in ids \ {i} : KeyLess(OrderKey(q[i], dir), OrderKey(q[j], dir)),
              LAMBDA first :
                 With(ids \ {first}, LAMBDA rest : <<first>> \o OrderByKey(q, rest, dir)))

\* fetch_pending_downloads with the ORDER BY of the recent query.
fetch_pending_downloads_newest_first(q, prefs, limit, account_phone) ==
    With(PendingEligible(q, prefs, account_phone),
         LAMBDA ids : Limit(OrderByKey(q, ids, -1), limit))

\* fetch_pending_downloads: the ids of the rows returned, in order.
fetch_pending_downloads(q, prefs, limit, account_phone) ==
    With(PendingEligible(q, prefs, account_phone),
         LAMBDA ids : Limit(OrderByKey(q, ids, 1), limit))

\* fetch_recent_pending_downloads: the ids of the rows returned, in order.
fetch_recent_pending_downloads(q, prefs, limit, account_phone) ==
    With(PendingEligible(q, prefs, account_phone),
         LAMBDA ids : Limit(OrderByKey(q, ids, -1), limit))

\* SELECT path FROM download_queue WHERE file_unique_id = %s AND status = 'done'
\* AND path IS NOT NULL ORDER BY updated_at DESC LIMIT 1: the set of values the
\* call may return (rows with the same updated_at come in the database's
\* order); {NULL} when nothing matches or when `not file_unique_id`.
get_downloaded_path_by_unique_id(q, file_unique_id) ==
    LET hits == {i \in 1..Len(q) : /\ q[i].file_unique_id = file_unique_id
                                   /\ q[i].status = "done"
                                   /\ q[i].path # NULL}
    IN  IF file_unique_id = NULL \/ hits = {} THEN {NULL}
        ELSE {q[i].path : i \in {h \in hits : \A k \in hits : q[h].updated_at >= q[k].updated_at}}

\* UPDATE download_queue SET status = 'in_progress', attempts = attempts + 1,
\* updated_at = CURRENT_TIMESTAMP WHERE id = %s
\* The UPDATE that counts the attempt and leaves the status.
mark_download_in_progress_keeps_status(q, row_id, ts) ==
    [q EXCEPT ![row_id].attempts = @ + 1, ![row_id].updated_at = ts]

mark_download_in_progress(q, row_id, ts) ==
    [i \in 1..Len(q) |->
        IF q[i].id = row_id
        THEN [q[i] EXCEPT !.status = "in_progress", !.attempts = @ + 1, !.updated_at = ts]
        ELSE q[i]]

\* The UPDATE of mark_download_done without `path = %s`.
mark_download_done_without_path(q, row_id, path, ts) ==
    [i \in 1..Len(q) |->
        IF q[i].id = row_id
        THEN [q[i] EXCEPT !.status = "done", !.error = NULL, !.updated_at = ts]
        ELSE q[i]]

\* UPDATE download_queue SET status = 'done', path = %s, error = NULL,
\* updated_at = CURRENT_TIMESTAMP WHERE id = %s
mark_download_done(q, row_id, path, ts) ==
    [i \in 1..Len(q) |->
        IF q[i].id = row_id
        THEN [q[i] EXCEPT !.status = "done", !.path = path, !.error = NULL, !.updated_at = ts]
        ELSE q[i]]

\* The error text stored as it is given.
Truncate_nothing(err, n) == err

\* An error text is its wording and its length; error[:500] keeps the first
\* 500 characters.
Truncate(err, n) == [text |-> err.text, len |-> IF err.len < n THEN err.len ELSE n]

\* The UPDATE that puts the row back for another attempt.
mark_download_failed_to_pending(q, row_id, err, ts) ==
    [i \in 1..Len(q) |->
        IF q[i].id = row_id
        THEN [q[i] EXCEPT !.status = "pending", !.error = Truncate(err, ErrorLimit),
                          !.updated_at = ts]
        ELSE q[i]]

\* UPDATE download_queue SET status = 'failed', error = %s (error[:500]),
\* updated_at = CURRENT_TIMESTAMP WHERE id = %s
mark_download_failed(q, row_id, err, ts) ==
    [i \in 1..Len(q) |->
        IF q[i].id = row_id
        THEN [q[i] EXCEPT !.status = "failed", !.error = Truncate(err, ErrorLimit),
                          !.updated_at = ts]
        ELSE q[i]]

\* The rows reset_stuck_downloads updates: WHERE status = 'in_progress'
\* [AND account_phone = %s] [AND updated_at < CURRENT_TIMESTAMP - max_age minutes].
\* The rows of the sweep with the age compared by <=.
StuckRows_at_age(q, max_age_minutes, account_phone, ts) ==
    {i \in 1..Len(q) :
        /\ q[i].status = "in_progress"
        /\ (account_phone # NULL => q[i].account_phone = account_phone)
        /\ (IsKnown(max_age_minutes) => q[i].updated_at <= ts - Val(max_age_minutes))}

StuckRows(q, max_age_minutes, account_phone, ts) ==
    {i \in 1..Len(q) :
        /\ q[i].status = "in_progress"
        /\ (account_phone # NULL => q[i].account_phone = account_phone)
        /\ (IsKnown(max_age_minutes) => q[i].updated_at < ts - Val(max_age_minutes))}

\* reset_stuck_downloads that takes its default max_age_minutes = 10 when it
\* is given None.
reset_stuck_downloads_aged(q, max_age_minutes, account_phone, ts) ==
    [i \in 1..Len(q) |->
        IF i \in StuckRows(q, Known(10), account_phone, ts)
        THEN [q[i] EXCEPT !.status = "pending", !.updated_at = ts]
        ELSE q[i]]

\* UPDATE download_queue SET status = 'pending', updated_at = CURRENT_TIMESTAMP
\* WHERE <StuckRows>
reset_stuck_downloads(q, max_age_minutes, account_phone, ts) ==
    [i \in 1..Len(q) |->
        IF i \in StuckRows(q, max_age_minutes, account_phone, ts)
        THEN [q[i] EXCEPT !.status = "pending", !.updated_at = ts]
        ELSE q[i]]

(***************************************************************************)
(* Media messages of the platform, and _enqueue_media_download             *)
(***************************************************************************)
BytesPerMb == 1024 * 1024

\* The path download_media gives for a message: base_dir/chat_id/category/filename.
Target(chat_id, msg_id) == "media/" \o ToString(chat_id) \o "/" \o ToString(msg_id)

\* The media messages the platform holds: (chat_id, id), what _get_file_size
\* and message.file.unique_id give.  The two messages of chat 100 carry the
\* same file.
MediaEvents ==
    {[chat_id |-> 100, id |-> 1, text |-> "t1", media |-> "photo", date |-> 1, edit_date |-> NoInt,
      file_size |-> Known(BytesPerMb), file_unique_id |-> "u1"],
     [chat_id |-> 100, id |-> 2, text |-> "t1", media |-> "photo", date |-> 2, edit_date |-> NoInt,
      file_size |-> Known(BytesPerMb), file_unique_id |-> "u1"],
     [chat_id |-> 200, id |-> 1, text |-> "t1", media |-> "document", date |-> 1, edit_date |-> NoInt,
      file_size |-> NoInt, file_unique_id |-> NULL],
     [chat_id |-> 200, id |-> 2, text |-> "t1", media |-> "video", date |-> 2, edit_date |-> NoInt,
      file_size |-> Known(2 * BytesPerMb), file_unique_id |-> "u2"]}

\* The size check when a file of exactly the maximum size is over it.
OverSize_from_limit(file_size, max_mb) ==
    IsKnown(max_mb) /\ IsKnown(file_size) /\ Val(file_size) >= Val(max_mb) * BytesPerMb

\* `max_mb is not None and file_size is not None and file_size > max_mb * 1024 * 1024`
OverSize(file_size, max_mb) ==
    IsKnown(max_mb) /\ IsKnown(file_size) /\ Val(file_size) > Val(max_mb) * BytesPerMb

\* UPDATE messages SET media_file_path = %s WHERE msg_id = %s AND chat_id = %s
\* AND account_phone = %s  (_enqueue_media_download, the reuse branch)
SetMessagePath(tbl, chat_id, msg_id, account_phone, path) ==
    {IF Identity(r) = <<chat_id, msg_id, account_phone>>
     THEN [r EXCEPT !.media_file_path = path] ELSE r : r \in tbl}

\* UPDATE messages SET media_file_path = %s WHERE msg_id = %s AND chat_id = %s
\* (_download_media_task: no account_phone in the WHERE clause)
SetMessagePathAnyAccount(tbl, chat_id, msg_id, path) ==
    {IF r.chat_id = chat_id /\ r.msg_id = msg_id
     THEN [r EXCEPT !.media_file_path = path] ELSE r : r \in tbl}

\* _enqueue_media_download without the lookup of a downloaded file.
enqueue_media_download_without_reuse(q, tbl, prefs, ev, account_phone, max_mb, ts, existing) ==
    IF ~is_media_download_enabled(prefs, ev.chat_id, account_phone)
    THEN [download_queue |-> q, messages |-> tbl, again |-> FALSE]
    ELSE IF OverSize(ev.file_size, max_mb)
    THEN [download_queue |-> q, messages |-> tbl, again |-> FALSE]
    ELSE [download_queue |-> enqueue_download(q, ev, account_phone, ts), messages |-> tbl,
          again |-> HasKey(q, ev.chat_id, ev.id, account_phone)]

\* _enqueue_media_download: the tables after the call; `existing` is what
\* get_downloaded_path_by_unique_id returned, `again` says that enqueue_download
\* was called for a key that had its row.
enqueue_media_download(q, tbl, prefs, ev, account_phone, max_mb, ts, existing) ==
    IF ~is_media_download_enabled(prefs, ev.chat_id, account_phone)
    THEN [download_queue |-> q, messages |-> tbl, again |-> FALSE]
    ELSE IF OverSize(ev.file_size, max_mb)
    THEN [download_queue |-> q, messages |-> tbl, again |-> FALSE]
    ELSE IF existing # NULL
    THEN [download_queue |-> q,
          messages |-> SetMessagePath(tbl, ev.chat_id, ev.id, account_phone, existing),
          again |-> FALSE]
    ELSE [download_queue |-> enqueue_download(q, ev, account_phone, ts), messages |-> tbl,
          again |-> HasKey(q, ev.chat_id, ev.id, account_phone)]

\* Where _enqueue_media_download may raise: in the preference lookup, or in
\* the statement that writes (enqueue_download, or the UPDATE of the reuse
\* branch), which then writes nothing.
MediaStopPoints == {"is_media_download_enabled", "enqueue_download"}

\* The media step when its failure takes the persisted message with it.
media_step_rollback(q, tbl, prefs, ev, account_phone, max_mb, ts, existing, stop) ==
    IF stop \in MediaStopPoints
    THEN [download_queue |-> q,
          messages |-> {r \in tbl : Identity(r) # <<ev.chat_id, ev.id, account_phone>>},
          again |-> FALSE]
    ELSE enqueue_media_download(q, tbl, prefs, ev, account_phone, max_mb, ts, existing)

\* `try: await _enqueue_media_download(...) except Exception as exc:
\*  logger.warning(...)`: the tables after the media step of _process_message.
media_step(q, tbl, prefs, ev, account_phone, max_mb, ts, existing, stop) ==
    IF stop \in MediaStopPoints
    THEN [download_queue |-> q, messages |-> tbl, again |-> FALSE]
    ELSE enqueue_media_download(q, tbl, prefs, ev, account_phone, max_mb, ts, existing)

(***************************************************************************)
(* process_download_queue: one pass of the `while True` loop               *)
(***************************************************************************)
min_recent_slots == 3

\* The identity of the task created for a row: the row and the number of the
\* dispatch (attempts after mark_download_in_progress), which no other task has.
TaskOf(q, row_id) == <<row_id, q[row_id].attempts + 1>>

\* `for row in rows: mark_download_in_progress(conn, row["id"]);
\*  task = asyncio.create_task(...); tasks.add(task)[; tasks_recent.add(task)]`
RECURSIVE DispatchRows(_, _, _, _)
DispatchRows(st, rows, recent, ts) ==
    IF rows = <<>> THEN st
    ELSE With([q |-> mark_download_in_progress(st.q, Head(rows), ts),
               tasks |-> st.tasks \cup {[tid |-> TaskOf(st.q, Head(rows)), id |-> Head(rows),
                                         done |-> FALSE]},
               recent |-> IF recent THEN st.recent \cup {TaskOf(st.q, Head(rows))}
                          ELSE st.recent],
              LAMBDA st1 : DispatchRows(st1, Tail(rows), recent, ts))

\* The FIFO fetch asking for `concurrency` rows instead of the free slots.
fifo_limit_whole_pool(concurrency, active) == concurrency

\* `slots_available = concurrency - len(tasks)` before the FIFO fetch
fifo_limit(concurrency, active) == concurrency - active

\* recent_slots with the reservation ignoring the recent tasks still active.
recent_slots_ignoring_active(concurrency, active, active_recent) ==
    IF min_recent_slots < concurrency - active THEN min_recent_slots ELSE concurrency - active

\* `recent_deficit = max(0, min_recent_slots - len(tasks_recent));
\*  recent_slots = min(recent_deficit, concurrency - len(tasks))`
recent_slots(concurrency, active, active_recent) ==
    LET recent_deficit == IF min_recent_slots - active_recent > 0
                          THEN min_recent_slots - active_recent ELSE 0
    IN  IF recent_deficit < concurrency - active THEN recent_deficit ELSE concurrency - active

\* The recent fetch and its dispatch: lines 590-604 of the loop body.
RecentLane(st, prefs, concurrency, account_phone, ts) ==
    With(recent_slots(concurrency, Cardinality(st.tasks), Cardinality(st.recent)),
         LAMBDA rs :
            IF rs > 0
            THEN With(fetch_recent_pending_downloads(st.q, prefs, rs, account_phone),
                      LAMBDA recent_rows : DispatchRows(st, recent_rows, TRUE, ts))
            ELSE st)

\* `while len(tasks) < concurrency:` with its two fetches and two breaks.
RECURSIVE FillSlots(_, _, _, _, _)
FillSlots(st, prefs, concurrency, account_phone, ts) ==
    IF ~(Cardinality(st.tasks) < concurrency) THEN st
    ELSE With(RecentLane(st, prefs, concurrency, account_phone, ts),
              LAMBDA st1 :
                 With(fifo_limit(concurrency, Cardinality(st1.tasks)),
                      LAMBDA slots_available :
                         IF slots_available <= 0 THEN st1
                         ELSE With(fetch_pending_downloads(st1.q, prefs, slots_available,
                                                           account_phone),
                                   LAMBDA rows :
                                      IF rows = <<>> THEN st1
                                      ELSE With(DispatchRows(st1, rows, FALSE, ts),
                                                LAMBDA st2 :
                                                   FillSlots(st2, prefs, concurrency,
                                                             account_phone, ts)))))

\* The reap at the top of the loop: tasks and tasks_recent without the tasks
\* that are done.
Reaped(ts, recent) ==
    [tasks |-> {t \in ts : ~t.done},
     recent |-> recent \cap {t.tid : t \in {u \in ts : ~u.done}}]

\* The state after one pass: reap, then fill.
PassResult(q, ts, recent, prefs, concurrency, account_phone, clock) ==
    With(Reaped(ts, recent),
         LAMBDA r : FillSlots([q |-> q, tasks |-> r.tasks, recent |-> r.recent],
                              prefs, concurrency, account_phone, clock))

(***************************************************************************)
(* Actions                                                                 *)
(***************************************************************************)
MaxAttempts == 2

PrefKeys == Chats \X Accounts
NoPreferences == [k \in PrefKeys |-> <<>>]
NoCatchups == [k \in PrefKeys |-> 0]
\* No call of a handler or of process_with_limit is under way.
NoSubmissions == <<>>

\* What ensure_chat_preferences_table and ensure_download_queue_account_phone
\* look for; a database initialised by postgres/init_db.sql has all of it.
SchemaParts == {"chat_preferences", "download_queue", "download_queue.account_phone"}
FullSchema == SchemaParts

\* `state = _load_state()` with no state.json: {}; `.get("last_id", 0)`.
NoState == [c \in Chats |-> 0]
NoGaps == [called |-> FALSE, chat_id |-> 0, account_phone |-> NULL, limit |-> 0, result |-> <<>>]

\* `hasattr(message, "reactions") and message.reactions` and the
\* reactions_data built from message.reactions.results: the (emoji, count)
\* pairs of the event, none when the payload has no reactions.
EventReactions(ev) == IF "reactions" \in DOMAIN ev THEN ev.reactions ELSE {}

\* `if message.entities:` and the entities_data built from it.
EventEntities(ev) == IF "entities" \in DOMAIN ev THEN ev.entities ELSE {}

\* The rows of a message in the reactions or the entities table.
SetRowsOf(tbl, chat_id, msg_id, account_phone) ==
    {r \in tbl : r.chat_id = chat_id /\ r.msg_id = msg_id /\ r.account_phone = account_phone}

\* insert_reactions / insert_entities: `if not data: return`, then DELETE the
\* rows of (msg_id, chat_id, account_phone) and INSERT one row per element.
\* _process_message and _process_edited_message call them only under
\* `if message.reactions` / `if message.entities`, which skips the same case.
replace_set(tbl, chat_id, msg_id, account_phone, data) ==
    IF data = {}
    THEN tbl
    ELSE (tbl \ SetRowsOf(tbl, chat_id, msg_id, account_phone)) \cup
            {[msg_id |-> msg_id, chat_id |-> chat_id, account_phone |-> account_phone, data |-> d] :
                d \in data}

\* The reactions and entities tables after the database stretch of
\* _process_message (edited = FALSE) or _process_edited_message (TRUE): the
\* two calls come after insert_message_log and are not reached when an
\* earlier statement of the stretch raises.
refresh_sets(rx, en, log, ev, account_phone, stop, edited) ==
    IF \/ stop \in {"insert_message", "insert_message_log"}
       \/ unique_violation(log, LogRow(ev, account_phone, edited))
    THEN [reactions |-> rx, entities |-> en]
    ELSE [reactions |-> replace_set(rx, ev.chat_id, ev.id, account_phone, EventReactions(ev)),
          entities |-> replace_set(en, ev.chat_id, ev.id, account_phone, EventEntities(ev))]

\* HISTORIC_GAP_THRESHOLD = int(os.environ.get("LISTENER_HISTORIC_GAP_THRESHOLD", "10"))
HISTORIC_GAP_THRESHOLD == 10

\* The local `gap` of _process_message at its end: None until
\* `gap = message.id - previous_max_id`, the statement after insert_message;
\* previous_max_id was read before the insert.
message_gap(tbl, ev, account_phone, stop) ==
    IF stop = "insert_message" THEN NoInt
    ELSE Known(ev.id - get_max_message_id_in_chat(tbl, ev.chat_id, account_phone))

\* The gap test with >= for >.
gap_trigger_at_threshold(gap) == IsKnown(gap) /\ Val(gap) >= HISTORIC_GAP_THRESHOLD

\* `if gap is not None and gap > HISTORIC_GAP_THRESHOLD:`
gap_trigger(gap) == IsKnown(gap) /\ Val(gap) > HISTORIC_GAP_THRESHOLD

\* _process_message(message, account_phone): the database stretch, then the
\* media step `if download and message.media`, then the gap step
\* `asyncio.create_task(_catch_up_chat_background(chat_id, account_phone))`.
\* get_downloaded_path_by_unique_id is read after the stretch, from the queue
\* as it is then.
\* The effects of a call of _process_message that returns.
ProcessMessageReturns(account_phone, ev, stop) ==
    /\ catchups' =
          IF gap_trigger(message_gap(messages, ev, account_phone, stop))
          THEN [catchups EXCEPT ![<<ev.chat_id, account_phone>>] = @ + 1]
          ELSE catchups
    /\ LET db == ProcessMessageDb(messages, message_log, ev, account_phone, stop)
       IN  /\ message_log' = db.message_log
           /\ ingested' = IF stop = "insert_message" THEN ingested
                          ELSE ingested \cup {<<ev.chat_id, ev.id, account_phone>>}
           /\ IF config.download /\ ev.media # NULL
              THEN \E existing \in get_downloaded_path_by_unique_id(download_queue, ev.file_unique_id) :
                      LET r == media_step(download_queue, db.messages, chat_preferences,
                                          ev, account_phone, config.max_mb, now, existing, stop)
                      IN  /\ download_queue' = r.download_queue
                          /\ messages' = r.messages
                          /\ requeued' = IF r.again
                                         THEN requeued \cup {<<ev.chat_id, ev.id, account_phone>>}
                                         ELSE requeued
              ELSE /\ messages' = db.messages
                   /\ UNCHANGED <<download_queue, requeued>>
    /\ LET sets == refresh_sets(reactions, entities, message_log, ev, account_phone, stop, FALSE)
       IN  reactions' = sets.reactions /\ entities' = sets.entities
    /\ UNCHANGED <<chat_preferences, config, sched, tasks, tasks_recent, now, gaps,
                   transfers, platform>>

\* _process_message called where no retry loop is modelled.
ProcessMessage(account_phone, ev, stop) ==
    /\ ProcessMessageReturns(account_phone, ev, stop)
    /\ UNCHANGED <<submissions, schema, state>>

\* The database stretch of _process_edited_message when it also upserts the
\* Message row with the values of the edit.
ProcessEditedDb_with_upsert(tbl, log, ev, account_phone, stop) ==
    IF \/ stop = "insert_message_log"
       \/ unique_violation(log, LogRow(ev, account_phone, TRUE))
    THEN [messages |-> tbl, message_log |-> log]
    ELSE insert_message_log_tables(insert_message(tbl, MessageRow(ev, account_phone)), log,
                                   LogRow(ev, account_phone, TRUE))

\* The tables after the database stretch of _process_edited_message: it calls
\* insert_message_log(edited=True, created_at=message.date or edit_date) and
\* never insert_message ("No sobrescribimos el mensaje original").  A failure
\* (stop, or the key of message_log refusing the row) is logged only.
ProcessEditedDb(tbl, log, ev, account_phone, stop) ==
    IF \/ stop = "insert_message_log"
       \/ unique_violation(log, LogRow(ev, account_phone, TRUE))
    THEN [messages |-> tbl, message_log |-> log]
    ELSE insert_message_log_tables(tbl, log, LogRow(ev, account_phone, TRUE))

\* _process_edited_message(message) in the process of account_phone: the
\* database stretch, then the media step; it has no gap step.
ProcessEditedMessage(account_phone, ev, stop) ==
    /\ LET db == ProcessEditedDb(messages, message_log, ev, account_phone, stop)
       IN  /\ message_log' = db.message_log
           /\ IF config.download /\ ev.media # NULL
              THEN \E existing \in get_downloaded_path_by_unique_id(download_queue, ev.file_unique_id) :
                      LET r == media_step(download_queue, db.messages, chat_preferences,
                                          ev, account_phone, config.max_mb, now, existing, stop)
                      IN  /\ download_queue' = r.download_queue
                          /\ messages' = r.messages
                          /\ requeued' = IF r.again
                                         THEN requeued \cup {<<ev.chat_id, ev.id, account_phone>>}
                                         ELSE requeued
              ELSE /\ messages' = db.messages
                   /\ UNCHANGED <<download_queue, requeued>>
    /\ LET sets == refresh_sets(reactions, entities, message_log, ev, account_phone, stop, TRUE)
       IN  reactions' = sets.reactions /\ entities' = sets.entities
    /\ UNCHANGED <<chat_preferences, config, sched, tasks, tasks_recent, now, gaps,
                   ingested, transfers, platform, catchups, submissions, schema, state>>

\* run_listener, gap filling: mark_message_unrecoverable(chat_id, missing_id,
\* account_phone, "telegram_missing") for an id the platform did not return.
MarkUnrecoverable(chat_id, msg_id, account_phone) ==
    /\ messages' = mark_message_unrecoverable(messages, chat_id, msg_id, account_phone,
                                              "__UNRECOVERABLE__:telegram_missing", now)
    /\ ingested' = ingested \cup {<<chat_id, msg_id, account_phone>>}
    /\ UNCHANGED <<message_log, download_queue, chat_preferences, config, sched, tasks,
                   tasks_recent, now, gaps, transfers, requeued, platform, catchups, reactions, entities, submissions, schema, state>>

\* get_chat_gaps(chat_id, account_phone, limit)
GetChatGaps(chat_id, account_phone, limit) ==
    /\ \E res \in get_chat_gaps(messages, chat_id, account_phone, limit) :
          gaps' = [called |-> TRUE, chat_id |-> chat_id, account_phone |-> account_phone,
                   limit |-> limit, result |-> res]
    /\ UNCHANGED <<messages, message_log, download_queue, chat_preferences, config, sched,
                   tasks, tasks_recent, now, ingested, transfers, requeued, platform,
                   catchups, reactions, entities, submissions, schema, state>>

\* _enqueue_media_download(message, account_phone), the media step of both
\* handlers.
EnqueueMediaDownload(account_phone, ev) ==
    /\ config.download
    /\ \E existing \in get_downloaded_path_by_unique_id(download_queue, ev.file_unique_id) :
          LET r == enqueue_media_download(download_queue, messages, chat_preferences,
                                          ev, account_phone, config.max_mb, now, existing)
          IN  /\ download_queue' = r.download_queue
              /\ messages' = r.messages
              /\ requeued' = IF r.again
                             THEN requeued \cup {<<ev.chat_id, ev.id, account_phone>>}
                             ELSE requeued
    /\ UNCHANGED <<message_log, chat_preferences, config, sched, tasks, tasks_recent, now,
                   gaps, ingested, transfers, platform, catchups, reactions, entities, submissions, schema, state>>

\* The API's upsert of chat_preferences (chat_id, account_phone,
\* media_download_enabled).
SetPreference(chat_id, account_phone, enabled) ==
    /\ chat_preferences' = [chat_preferences EXCEPT ![<<chat_id, account_phone>>] = <<enabled>>]
    /\ UNCHANGED <<messages, message_log, download_queue, config, sched, tasks, tasks_recent,
                   now, gaps, ingested, transfers, requeued, platform, catchups, reactions, entities, submissions, schema, state>>

\* process_download_queue up to `tasks = set()`: the startup sweep
\* reset_stuck_downloads(max_age_minutes=None, account_phone).
Startup ==
    /\ sched = "start"
    /\ download_queue' = reset_stuck_downloads(download_queue, NoInt, config.account, now)
    /\ sched' = "run"
    /\ tasks' = {}
    /\ tasks_recent' = {}
    /\ UNCHANGED <<messages, message_log, chat_preferences, config, now, gaps, ingested,
                   transfers, requeued, platform, catchups, reactions, entities, submissions, schema, state>>

\* One iteration of `while True`: it starts when the loop is not waiting, that
\* is when no task is left or asyncio.wait(FIRST_COMPLETED) has a done task.
Pass ==
    /\ sched = "run"
    /\ tasks = {} \/ \E t \in tasks : t.done
    /\ \E st \in {PassResult(download_queue, tasks, tasks_recent, chat_preferences,
                              config.concurrency, config.account, now)} :
          /\ download_queue' = st.q
          /\ tasks' = st.tasks
          /\ tasks_recent' = st.recent
    /\ UNCHANGED <<messages, message_log, chat_preferences, config, sched, now, gaps,
                   ingested, transfers, requeued, platform, catchups, reactions, entities, submissions, schema, state>>

\* How the worker of a task ends: client.get_messages returns nothing or
\* raises (with a text longer than the column keeps), the transfer gives no path, or it
\* gives one.
WorkerOutcomes == {"not_found", "raises_long", "no_path", "path"}

OutcomeError(outcome) ==
    IF outcome = "not_found" THEN [text |-> "Mensaje no encontrado para descarga", len |-> 35]
    ELSE IF outcome = "raises_long" THEN [text |-> "exception", len |-> 700]
    ELSE [text |-> "Sin ruta devuelta", len |-> 17]

\* client.get_messages(chat_id, ids=msg_id) when it finds the message: the
\* size _get_file_size gives for it (the one read when it was enqueued) and
\* the path download_media returns for it.
PlatformMessage(row) ==
    [file_size |-> row.file_size, target |-> Target(row.chat_id, row.msg_id)]

\* _process_queue_item(row) for the task t, from its first statement to its
\* last; _download_media_task inside it.
WorkerFinish(t, outcome) ==
    /\ sched = "run"
    /\ t \in tasks
    /\ ~t.done
    /\ LET row == download_queue[t.id]
           msg == PlatformMessage(row)
           skipped == OverSize(msg.file_size, config.max_mb)
           found == outcome \in {"no_path", "path"}
       IN  /\ transfers' = IF found /\ ~skipped THEN transfers \cup {t.id} ELSE transfers
           /\ IF found /\ ~skipped /\ outcome = "path"
              THEN /\ messages' = SetMessagePathAnyAccount(messages, row.chat_id, row.msg_id, msg.target)
                   /\ download_queue' = mark_download_done(download_queue, t.id, msg.target, now)
              ELSE /\ download_queue' = mark_download_failed(download_queue, t.id,
                                            OutcomeError(IF found THEN "no_path" ELSE outcome), now)
                   /\ UNCHANGED messages
    /\ tasks' = (tasks \ {t}) \cup {[t EXCEPT !.done = TRUE]}
    /\ UNCHANGED <<message_log, chat_preferences, config, sched, tasks_recent, now, gaps,
                   ingested, requeued, platform, catchups, reactions, entities, submissions, schema, state>>

\* A second process of the same account (the `catch-up` command, or a second
\* listener) reaches process_download_queue: its startup sweep
\* reset_stuck_downloads(max_age_minutes=None, account_phone) runs while the
\* workers of this process are in flight.
OtherStartup ==
    /\ sched = "run"
    /\ \A i \in StuckRows(download_queue, NoInt, config.account, now) :
          download_queue[i].attempts < MaxAttempts
    /\ download_queue' = reset_stuck_downloads(download_queue, NoInt, config.account, now)
    /\ UNCHANGED <<messages, message_log, chat_preferences, config, sched, tasks,
                   tasks_recent, now, gaps, ingested, transfers, requeued, platform, catchups, reactions, entities, submissions, schema, state>>

\* The process dies and is started again: its tasks are gone, the rows stay.
Crash ==
    /\ sched = "run"
    /\ \A i \in 1..Len(download_queue) :
          download_queue[i].status = "in_progress" => download_queue[i].attempts < MaxAttempts
    /\ sched' = "start"
    /\ tasks' = {}
    /\ tasks_recent' = {}
    /\ UNCHANGED <<messages, message_log, download_queue, chat_preferences, config, now,
                   gaps, ingested, transfers, requeued, platform, catchups, reactions, entities, submissions, schema, state>>

\* The Message payload client.iter_messages yields for an id the platform
\* holds: a text message.
PlatformEvent(chat_id, msg_id) ==
    [chat_id |-> chat_id, id |-> msg_id, text |-> "t1", media |-> NULL, date |-> 1,
     edit_date |-> NoInt, file_size |-> NoInt, file_unique_id |-> NULL]

\* client.iter_messages(entity, min_id=min_id, reverse=True): the ids the
\* platform holds above min_id, oldest first.
iter_messages_above(held, min_id) == SortedAsc({i \in held : i > min_id})

\* iter_messages_above with min_id itself among the ids returned.
iter_messages_from(held, min_id) == SortedAsc({i \in held : i >= min_id})

\* The messages of `ids`, one _process_message after the other in the order
\* their tasks were created: the tables after them and the number of
\* _catch_up_chat_background tasks they created.  The insert_message of the
\* ids in `failed` raises.
RECURSIVE process_batch(_, _, _, _, _)
process_batch(st, chat_id, ids, account_phone, failed) ==
    IF ids = <<>> THEN st
    ELSE With(
        [ev |-> PlatformEvent(chat_id, Head(ids)),
         stop |-> IF Head(ids) \in failed THEN "insert_message" ELSE "none"],
        LAMBDA m :
           With(ProcessMessageDb(st.messages, st.message_log, m.ev, account_phone, m.stop),
                LAMBDA db :
                   process_batch(
                       [messages |-> db.messages, message_log |-> db.message_log,
                        launched |-> st.launched +
                            (IF gap_trigger(message_gap(st.messages, m.ev, account_phone, m.stop))
                             THEN 1 ELSE 0)],
                       chat_id, Tail(ids), account_phone, failed)))

\* catch_up_chat(chat_id, account_phone): max_msg_id_in_db, then every message
\* of iter_messages(min_id=max_msg_id_in_db) through _process_message.
catch_up_chat(tbl, log, held, chat_id, account_phone, failed) ==
    process_batch([messages |-> tbl, message_log |-> log, launched |-> 0], chat_id,
                  iter_messages_above(held, get_max_message_id_in_chat(tbl, chat_id, account_phone)),
                  account_phone, failed)

\* A _catch_up_chat_background task created by the gap step runs.
BackgroundCatchUp(chat_id, account_phone, failed) ==
    /\ catchups[<<chat_id, account_phone>>] > 0
    /\ \E st \in {catch_up_chat(messages, message_log, platform, chat_id, account_phone, failed)} :
          /\ messages' = st.messages
          /\ message_log' = st.message_log
          /\ catchups' = [catchups EXCEPT ![<<chat_id, account_phone>>] = @ - 1 + st.launched]
    /\ ingested' = ingested \cup {<<r.chat_id, r.msg_id, r.account_phone>> : r \in messages'}
    /\ UNCHANGED <<download_queue, chat_preferences, config, sched, tasks, tasks_recent, now,
                   gaps, transfers, requeued, platform, reactions, entities, submissions, schema, state>>

\* The `catch-up` command: dispatch calls catch_up_chat for the chat.
CatchUpCommand(chat_id, account_phone, failed) ==
    /\ \E st \in {catch_up_chat(messages, message_log, platform, chat_id, account_phone, failed)} :
          /\ messages' = st.messages
          /\ message_log' = st.message_log
          /\ catchups' = [catchups EXCEPT ![<<chat_id, account_phone>>] = @ + st.launched]
    /\ ingested' = ingested \cup {<<r.chat_id, r.msg_id, r.account_phone>> : r \in messages'}
    /\ UNCHANGED <<download_queue, chat_preferences, config, sched, tasks, tasks_recent, now,
                   gaps, transfers, requeued, platform, reactions, entities, submissions, schema, state>>

\* client.iter_messages(entity, min_id=gap_start-1, max_id=gap_end+1,
\* limit=gap_size, reverse=True): the ids the platform holds strictly between
\* min_id and max_id, oldest first, at most `limit` of them.
iter_messages_between(held, min_id, max_id, limit) ==
    Limit(SortedAsc({i \in held : min_id < i /\ i < max_id}), limit)

\* missing_ids with range(gap_start, gap_end): the end of the gap left out.
missing_ids_without_end(gap_start, gap_end, seen_ids) == (gap_start..(gap_end - 1)) \ seen_ids

\* `missing_ids = set(range(gap_start, gap_end + 1)) - seen_ids`
missing_ids(gap_start, gap_end, seen_ids) == (gap_start..gap_end) \ seen_ids

\* `for missing_id in sorted(missing_ids): mark_message_unrecoverable(...)`
RECURSIVE mark_all_unrecoverable(_, _, _, _, _)
mark_all_unrecoverable(tbl, chat_id, ids, account_phone, ts) ==
    IF ids = <<>> THEN tbl
    ELSE With(mark_message_unrecoverable(tbl, chat_id, Head(ids), account_phone,
                                         "__UNRECOVERABLE__:telegram_missing", ts),
              LAMBDA t1 : mark_all_unrecoverable(t1, chat_id, Tail(ids), account_phone, ts))

\* The step that counts an id as seen only when its submission persisted it.
fill_gap_seen_on_success(tbl, log, held, chat_id, account_phone, gap_row, failed, ts) ==
    With(iter_messages_between(held, gap_row.gap_start - 1, gap_row.gap_end + 1, gap_row.gap_size),
         LAMBDA returned :
            With(process_batch([messages |-> tbl, message_log |-> log, launched |-> 0],
                               chat_id, returned, account_phone, failed),
                 LAMBDA st :
                    [st EXCEPT !.messages =
                        mark_all_unrecoverable(
                            st.messages, chat_id,
                            SortedAsc(missing_ids(gap_row.gap_start, gap_row.gap_end,
                                                  Range(returned) \ failed)),
                            account_phone, ts)]))

\* run_listener, step 2 for one row of `gaps[:10]`: the messages the platform
\* returns for the range go through _process_message, then the ids it did
\* not return get their placeholder.
fill_gap(tbl, log, held, chat_id, account_phone, gap_row, failed, ts) ==
    With(iter_messages_between(held, gap_row.gap_start - 1, gap_row.gap_end + 1, gap_row.gap_size),
         LAMBDA returned :
            With(process_batch([messages |-> tbl, message_log |-> log, launched |-> 0],
                               chat_id, returned, account_phone, failed),
                 LAMBDA st :
                    [st EXCEPT !.messages =
                        mark_all_unrecoverable(
                            st.messages, chat_id,
                            SortedAsc(missing_ids(gap_row.gap_start, gap_row.gap_end, Range(returned))),
                            account_phone, ts)]))

\* The gaps the loop works on: `for gap_row in gaps[:10]`, `if gap_size > 0`.
FillGap(k, failed) ==
    /\ gaps.called
    /\ k \in 1..Min({10, Len(gaps.result)})
    /\ gaps.result[k].gap_size > 0
    /\ \E st \in {fill_gap(messages, message_log, platform, gaps.chat_id, gaps.account_phone,
                            gaps.result[k], failed, now)} :
          /\ messages' = st.messages
          /\ message_log' = st.message_log
          /\ catchups' = [catchups EXCEPT ![<<gaps.chat_id, gaps.account_phone>>] = @ + st.launched]
    /\ ingested' = ingested \cup {<<r.chat_id, r.msg_id, r.account_phone>> : r \in messages'}
    /\ UNCHANGED <<download_queue, chat_preferences, config, sched, tasks, tasks_recent, now,
                   gaps, transfers, requeued, platform, reactions, entities, submissions, schema, state>>

\* run_listener, the loop over `gaps[:10]` of one dialog: count_catchup and
\* gaps_filled grow by one for every message the platform returns.
RECURSIVE fill_gaps(_, _, _, _, _, _)
fill_gaps(st, held, chat_id, account_phone, rows, ts) ==
    IF rows = <<>> THEN st
    ELSE With(Head(rows),
              LAMBDA gap_row :
                 IF gap_row.gap_size > 0
                 THEN With([f |-> fill_gap(st.messages, st.message_log, held, chat_id,
                                           account_phone, gap_row, {}, ts),
                            n |-> Len(iter_messages_between(held, gap_row.gap_start - 1,
                                                            gap_row.gap_end + 1, gap_row.gap_size))],
                           LAMBDA r :
                              fill_gaps([messages |-> r.f.messages,
                                         message_log |-> r.f.message_log,
                                         launched |-> st.launched + r.f.launched,
                                         count_catchup |-> st.count_catchup + r.n,
                                         gaps_filled |-> st.gaps_filled + r.n],
                                        held, chat_id, account_phone, Tail(rows), ts))
                 ELSE fill_gaps(st, held, chat_id, account_phone, Tail(rows), ts))

\* The dialog of a pass without step 2.
dialog_pass_step1_only(tbl, log, held, chat_id, account_phone, rows, ts) ==
    With([new |-> iter_messages_above(held, get_max_message_id_in_chat(tbl, chat_id, account_phone)),
          s1 |-> catch_up_chat(tbl, log, held, chat_id, account_phone, {})],
         LAMBDA r :
            fill_gaps([messages |-> r.s1.messages, message_log |-> r.s1.message_log,
                       launched |-> r.s1.launched, count_catchup |-> Len(r.new),
                       gaps_filled |-> 0],
                      held, chat_id, account_phone, <<>>, ts))

\* run_listener, one dialog of a pass of the loop over all chats: `rows` is
\* what get_chat_gaps returned before step 1; step 1 hands over the messages
\* above the persisted maximum, step 2 fills `gaps[:10]`.
dialog_pass(tbl, log, held, chat_id, account_phone, rows, ts) ==
    With([new |-> iter_messages_above(held, get_max_message_id_in_chat(tbl, chat_id, account_phone)),
          s1 |-> catch_up_chat(tbl, log, held, chat_id, account_phone, {})],
         LAMBDA r :
            fill_gaps([messages |-> r.s1.messages, message_log |-> r.s1.message_log,
                       launched |-> r.s1.launched, count_catchup |-> Len(r.new),
                       gaps_filled |-> 0],
                      held, chat_id, account_phone, Limit(rows, 10), ts))

\* run_listener, one pass of `while True` over the dialogs 100 and 200 of
\* account A, every submission succeeding.  The rows of one chat do not enter
\* the gaps of the other, so both results of get_chat_gaps are those of the
\* tables at the start of the pass.
BackfillPass ==
    /\ \E g1 \in get_chat_gaps(messages, 100, "A", 100),
          g2 \in get_chat_gaps(messages, 200, "A", 100) :
          \E d1 \in {dialog_pass(messages, message_log, platform, 100, "A", g1, now)} :
             \E d2 \in {dialog_pass(d1.messages, d1.message_log, platform, 200, "A", g2, now)} :
                /\ messages' = d2.messages
                /\ message_log' = d2.message_log
                /\ catchups' = [catchups EXCEPT ![<<100, "A">>] = @ + d1.launched,
                                                ![<<200, "A">>] = @ + d2.launched]
                /\ gaps' = [called |-> TRUE, chat_id |-> 200, account_phone |-> "A",
                            limit |-> 100, result |-> g2]
    /\ ingested' = ingested \cup {<<r.chat_id, r.msg_id, r.account_phone>> : r \in messages'}
    /\ UNCHANGED <<download_queue, chat_preferences, config, sched, tasks, tasks_recent, now,
                   transfers, requeued, platform, reactions, entities, submissions, schema, state>>

\* The process is stopped while no worker is in flight and started again
\* with another --max-mb: its tasks are gone, the rows stay.  (Crash is the
\* stop with workers in flight.)
Restart(max_mb) ==
    /\ sched = "run"
    /\ \A t \in tasks : t.done
    /\ sched' = "start"
    /\ tasks' = {}
    /\ tasks_recent' = {}
    /\ config' = [config EXCEPT !.max_mb = max_mb]
    /\ UNCHANGED <<messages, message_log, download_queue, chat_preferences, now, gaps,
                   ingested, transfers, requeued, platform, catchups, reactions, entities, submissions, schema, state>>

(***************************************************************************)
(* The retry loop around _process_message: catch_up_chat.process_with_limit *)
(* and run_listener.handler.  Durations are in tenths of a second.          *)
(***************************************************************************)
max_retries == 5

\* The backoff with the first wait after the call itself.
wait_time_from_one(retry_count) == 2 ^ (retry_count - 1)

\* `wait_time = 2 ** retry_count`, in seconds.
wait_time(retry_count) == 2 ^ retry_count

\* The argument of asyncio.sleep: wait_time + 0.5 in catch_up_chat, wait_time
\* in the handler.
sleep_tenths(site, retry_count) ==
    10 * wait_time(retry_count) + (IF site = "catch_up_chat" THEN 5 ELSE 0)

\* The calls: one of process_with_limit for message 1 and one of handler for
\* message 2.
Calls == {<<"catch_up_chat", 1>>, <<"handler", 2>>}

\* The wake-up times of the calls that sleep.
WakeTimes == {submissions[c].wake : c \in {x \in Calls : submissions[x].pc = "sleep"}}

\* _update_last_id(state, chat_id, message_id):
\* `prev = state.get(key, {}).get("last_id", 0); if message_id > prev: ...`
update_last_id(st, chat_id, message_id) ==
    IF message_id > st[chat_id] THEN [st EXCEPT ![chat_id] = message_id] ELSE st

\* `await _process_message(...)` raises (get_sender, get_chat or
\* get_db_connection failed, before any table is written): the except clause.
\* In handler the statements after the while loop, `_update_last_id(state,
\* event.chat_id, event.message.id); _save_state(state)`, run when the loop
\* ends, which it does only by retry_count reaching max_retries; the loop of
\* process_with_limit in catch_up_chat has no such statements.
AttemptRaises(c) ==
    /\ submissions[c].pc = "call"
    /\ submissions[c].retry_count < max_retries
    /\ LET retry_count == submissions[c].retry_count + 1
       IN  submissions' = [submissions EXCEPT ![c] =
              IF retry_count < max_retries
              THEN [pc |-> "sleep", retry_count |-> retry_count,
                    wake |-> now + sleep_tenths(c[1], retry_count)]
              ELSE [pc |-> "gave_up", retry_count |-> retry_count, wake |-> 0]]
    /\ state' = IF c[1] = "handler" /\ submissions[c].retry_count + 1 = max_retries
                THEN update_last_id(state, 100, c[2])
                ELSE state
    /\ UNCHANGED <<messages, message_log, download_queue, chat_preferences, config, sched,
                   tasks, tasks_recent, now, gaps, ingested, transfers, requeued, platform,
                   catchups, reactions, entities, schema>>

\* `await _process_message(...)` returns, its database stretch completed or
\* abandoned with the error logged: `return  # Exito` leaves the handler
\* from inside the loop, before the statements that follow the loop.
AttemptReturns(c, stop) ==
    /\ submissions[c].pc = "call"
    /\ submissions[c].retry_count < max_retries
    /\ ProcessMessageReturns("A", PlatformEvent(100, c[2]), stop)
    /\ submissions' = [submissions EXCEPT ![c].pc = "returned"]
    /\ UNCHANGED <<schema, state>>

\* asyncio.sleep is over for the call that wakes first.
Wake(c) ==
    /\ submissions[c].pc = "sleep"
    /\ submissions[c].wake = Min(WakeTimes)
    /\ now' = Max({now, submissions[c].wake})
    /\ submissions' = [submissions EXCEPT ![c].pc = "call", ![c].wake = 0]
    /\ UNCHANGED <<messages, message_log, download_queue, chat_preferences, config, sched,
                   tasks, tasks_recent, gaps, ingested, transfers, requeued, platform,
                   catchups, reactions, entities, schema, state>>

\* ensure_chat_preferences_table(conn): TRUE when it returns, FALSE when it
\* raises RuntimeError.  The cache _schema_checks only spares a second look
\* at a schema that passed, and no step of the model drops a table.
ensure_chat_preferences_table(sch) == "chat_preferences" \in sch

\* ensure_download_queue_account_phone(conn), likewise.
ensure_download_queue_account_phone(sch) ==
    "download_queue" \in sch /\ "download_queue.account_phone" \in sch

\* Where _enqueue_media_download raises on the schema: is_media_download_enabled
\* calls ensure_chat_preferences_table; get_downloaded_path_by_unique_id reads
\* download_queue and enqueue_download calls both validations.  (A queue
\* without its account_phone column holds no done row here.)
schema_stop(sch) ==
    IF ~ensure_chat_preferences_table(sch) THEN "is_media_download_enabled"
    ELSE IF ~ensure_download_queue_account_phone(sch) THEN "enqueue_download"
    ELSE "none"

\* handler on the schema the database has: _process_message validates
\* nothing before insert_message and insert_message_log, and the RuntimeError
\* of the media step ends in `except Exception as exc: logger.warning(...)`.
ProcessMessageOnSchema(account_phone, ev) ==
    ProcessMessage(account_phone, ev, schema_stop(schema))

\* The task of process_download_queue ends with the exception it raised;
\* run_listener created it with asyncio.create_task and goes on.
SchedulerRaises ==
    /\ sched' = "raised"
    /\ UNCHANGED <<messages, message_log, download_queue, chat_preferences, config, tasks,
                   tasks_recent, now, gaps, ingested, transfers, requeued, platform,
                   catchups, reactions, entities, submissions, schema, state>>

\* process_download_queue up to `tasks = set()` on the schema: the UPDATE of
\* reset_stuck_downloads, with `AND account_phone = %s`, is its first
\* statement on the database and no validation precedes it.
StartupOnSchema ==
    /\ sched = "start"
    /\ IF ensure_download_queue_account_phone(schema) THEN Startup ELSE SchedulerRaises

\* One iteration of `while True` on the schema: with a free slot the first
\* statement is fetch_recent_pending_downloads or fetch_pending_downloads,
\* which call both validations.
PassOnSchema ==
    /\ sched = "run"
    /\ IF ensure_chat_preferences_table(schema) /\ ensure_download_queue_account_phone(schema)
       THEN Pass
       ELSE (tasks = {} \/ \E t \in tasks : t.done) /\ SchedulerRaises

\* reset_stuck_downloads(conn, max_age_minutes, account_phone) called with an
\* age; the clock counts minutes.
TimedSweep(max_age_minutes, account_phone) ==
    /\ download_queue' = reset_stuck_downloads(download_queue, Known(max_age_minutes),
                                               account_phone, now)
    /\ UNCHANGED <<messages, message_log, chat_preferences, config, sched, tasks,
                   tasks_recent, now, gaps, ingested, transfers, requeued, platform,
                   catchups, reactions, entities, submissions, schema, state>>

\* A minute passes.
Tick(limit) ==
    /\ now < limit
    /\ now' = now + 1
    /\ UNCHANGED <<messages, message_log, download_queue, chat_preferences, config, sched,
                   tasks, tasks_recent, gaps, ingested, transfers, requeued, platform,
                   catchups, reactions, entities, submissions, schema, state>>

(***************************************************************************)
(* Specifications                                                          *)
(***************************************************************************)
IdleConfig == [account |-> "A", download |-> FALSE, max_mb |-> NoInt, concurrency |-> 8,
               stop_when_empty |-> FALSE]

\* SpecMsg: the messages and message_log tables under ingestion (live events,
\* redeliveries and backfill replays are all calls of _process_message) and
\* placeholder marking, in the process of account A and, for one message, in
\* the process of account B.
InitMsg ==
    /\ messages = {}
    /\ message_log = <<>>
    /\ download_queue = <<>>
    /\ chat_preferences = NoPreferences
    /\ config = IdleConfig
    /\ sched = "off"
    /\ tasks = {}
    /\ tasks_recent = {}
    /\ now = 0
    /\ gaps = NoGaps
    /\ ingested = {}
    /\ transfers = {}
    /\ requeued = {}
    /\ platform = {}
    /\ catchups = NoCatchups
    /\ reactions = {}
    /\ entities = {}
    /\ submissions = NoSubmissions
    /\ schema = FullSchema
    /\ state = NoState

MsgFeed == ({"A"} \X TextEvents)
           \cup ({"B"} \X {ev \in TextEvents : ev.id = 1 /\ ev.text = "t1"})

NextMsg ==
    \/ \E f \in MsgFeed, stop \in StopPoints :
          Len(message_log) < MaxLog /\ ProcessMessage(f[1], f[2], stop)
    \/ \E a \in Accounts, i \in 1..MaxMsgId : MarkUnrecoverable(100, i, a)

SpecMsg == InitMsg /\ [][NextMsg]_vars

\* SpecGaps: get_chat_gaps over every set of persisted ids of chat 100 of
\* account A, with placeholders among them and with rows of another chat and
\* of another account beside them.
MaxGapId == 9
GapLimits == {1, 2, 100}

GapRow(chat_id, msg_id, account_phone, placeholder) ==
    [msg_id |-> msg_id, chat_id |-> chat_id, account_phone |-> account_phone,
     text |-> IF placeholder THEN "__UNRECOVERABLE__:telegram_missing" ELSE "t1",
     media_type |-> IF placeholder THEN "unrecoverable" ELSE NULL,
     media_file_path |-> NULL, edit_date |-> NoInt, has_log |-> ~placeholder,
     created_at |-> 0]

InitGaps ==
    /\ \E S \in SUBSET (1..MaxGapId), placeholders \in BOOLEAN, others \in BOOLEAN :
          messages =
              {GapRow(100, i, "A", placeholders /\ i % 2 = 0) : i \in S}
              \cup (IF others
                    THEN {GapRow(100, i, "B", FALSE) : i \in (1..MaxGapId) \ S}
                         \cup {GapRow(200, i, "A", FALSE) : i \in (1..MaxGapId) \ S}
                    ELSE {})
    /\ message_log = <<>>
    /\ download_queue = <<>>
    /\ chat_preferences = NoPreferences
    /\ config = IdleConfig
    /\ sched = "off"
    /\ tasks = {}
    /\ tasks_recent = {}
    /\ now = 0
    /\ gaps = NoGaps
    /\ ingested = {}
    /\ transfers = {}
    /\ requeued = {}
    /\ platform = {}
    /\ catchups = NoCatchups
    /\ reactions = {}
    /\ entities = {}
    /\ submissions = NoSubmissions
    /\ schema = FullSchema
    /\ state = NoState

NextGaps == \E limit \in GapLimits : GetChatGaps(100, "A", limit)

SpecGaps == InitGaps /\ [][NextGaps]_vars

\* Spec: the download queue and its scheduler in the process of account A,
\* with a row enqueued by the process of account B beside them.
Concurrencies == {1, 2}
Feed == ({"A"} \X {ev \in MediaEvents : ev.chat_id = 100})
        \cup ({"B"} \X {ev \in MediaEvents : ev.chat_id = 100 /\ ev.id = 1})
PrefWrites == {<<100, "A">>}

Init ==
    /\ messages = {}
    /\ message_log = <<>>
    /\ download_queue = <<>>
    /\ chat_preferences = NoPreferences
    /\ \E c \in Concurrencies :
          config = [account |-> "A", download |-> TRUE, max_mb |-> NoInt, concurrency |-> c,
                    stop_when_empty |-> FALSE]
    /\ sched = "start"
    /\ tasks = {}
    /\ tasks_recent = {}
    /\ now = 0
    /\ gaps = NoGaps
    /\ ingested = {}
    /\ transfers = {}
    /\ requeued = {}
    /\ platform = {}
    /\ catchups = NoCatchups
    /\ reactions = {}
    /\ entities = {}
    /\ submissions = NoSubmissions
    /\ schema = FullSchema
    /\ state = NoState

Next ==
    \/ \E f \in Feed : EnqueueMediaDownload(f[1], f[2])
    \/ \E k \in PrefWrites, enabled \in BOOLEAN : SetPreference(k[1], k[2], enabled)
    \/ Startup
    \/ Pass
    \/ \E t \in tasks, outcome \in WorkerOutcomes : WorkerFinish(t, outcome)
    \/ OtherStartup
    \/ Crash

Spec == Init /\ [][Next]_vars

\* SpecPass: the `catch-up` command.  catch_up_chat has enqueued the media of
\* the messages it ingested, one row after the other, and only then
\* process_download_queue starts: the queue holds PassItems pending rows of
\* account A whose created_at grow with their id, of every size.
PassItems == 5
Sizes == {Known(BytesPerMb), Known(2 * BytesPerMb), NoInt}
PassConcurrencies == {4, 8}
PassOutcomes == {"path"}

PassRow(i, file_size) ==
    [id |-> i, msg_id |-> i, chat_id |-> 100, account_phone |-> "A",
     file_size |-> file_size, file_unique_id |-> NULL, status |-> "pending",
     attempts |-> 0, path |-> NULL, error |-> NULL, created_at |-> i, updated_at |-> i]

InitPass ==
    /\ messages = {}
    /\ message_log = <<>>
    /\ \E sz \in [1..PassItems -> Sizes] :
          download_queue = [i \in 1..PassItems |-> PassRow(i, sz[i])]
    /\ chat_preferences = NoPreferences
    /\ \E c \in PassConcurrencies :
          config = [account |-> "A", download |-> TRUE, max_mb |-> NoInt, concurrency |-> c,
                    stop_when_empty |-> TRUE]
    /\ sched = "start"
    /\ tasks = {}
    /\ tasks_recent = {}
    /\ now = PassItems + 1
    /\ gaps = NoGaps
    /\ ingested = {}
    /\ transfers = {}
    /\ requeued = {}
    /\ platform = {}
    /\ catchups = NoCatchups
    /\ reactions = {}
    /\ entities = {}
    /\ submissions = NoSubmissions
    /\ schema = FullSchema
    /\ state = NoState

NextPass ==
    \/ Startup
    \/ Pass
    \/ \E t \in tasks, outcome \in PassOutcomes : WorkerFinish(t, outcome)

SpecPass == InitPass /\ [][NextPass]_vars

\* SpecStream: the scheduler under a stream of new media messages that does
\* not end.  The loop reads download_queue only through the two pending
\* queries, whose WHERE clause is status = 'pending', and through the rows of
\* its tasks; a row that is done or failed and whose task is reaped is read by
\* no statement of the loop again.  The state keeps the other rows, in id
\* order: ids, msg_ids and the task identities built on them are kept up to
\* their order, which is all that ORDER BY reads of them.  At most one of the
\* kept rows is of the larger size.
StreamWindow == 6
StreamSizes == {Known(BytesPerMb), Known(2 * BytesPerMb)}
StreamConcurrencies == {3, 4}

Window(q, ts, recent, tr) ==
    LET keep == {i \in 1..Len(q) :
                    q[i].status \in {"pending", "in_progress"} \/ \E t \in ts : t.id = i}
        Rank(i) == Cardinality({j \in keep : j <= i})
        Nth(k) == CHOOSE i \in keep : Rank(i) = k
    IN  [q |-> [k \in 1..Cardinality(keep) |-> [q[Nth(k)] EXCEPT !.id = k, !.msg_id = k]],
         tasks |-> {[tid |-> <<Rank(t.id), t.tid[2]>>, id |-> Rank(t.id), done |-> t.done] : t \in ts},
         recent |-> {<<Rank(x[1]), x[2]>> : x \in recent},
         transfers |-> {Rank(i) : i \in tr \cap keep}]

StreamEvent(msg_id, file_size) ==
    [chat_id |-> 100, id |-> msg_id, text |-> "t1", media |-> "document", date |-> 1,
     edit_date |-> NoInt, file_size |-> file_size, file_unique_id |-> NULL]

\* NewMessage with media: _enqueue_media_download for a message not seen before.
StreamEnqueue(file_size) ==
    /\ Len(download_queue) < StreamWindow
    /\ \A i \in 1..Len(download_queue) :
          download_queue[i].file_size = Known(BytesPerMb) \/ file_size = Known(BytesPerMb)
    /\ EnqueueMediaDownload("A", StreamEvent(Len(download_queue) + 1, file_size))

\* The pass of StreamPass before the state drops the rows it reads no more.
StreamPassResult ==
    PassResult(download_queue, tasks, tasks_recent, chat_preferences,
               config.concurrency, config.account, now)

\* One iteration of `while True`, as Pass, on the rows the state keeps.
StreamPass ==
    /\ sched = "run"
    /\ tasks = {} \/ \E t \in tasks : t.done
    /\ \E st \in {StreamPassResult} :
          \E w \in {Window(st.q, st.tasks, st.recent, transfers)} :
             /\ download_queue' = w.q
             /\ tasks' = w.tasks
             /\ tasks_recent' = w.recent
             /\ transfers' = w.transfers
    /\ UNCHANGED <<messages, message_log, chat_preferences, config, sched, now, gaps,
                   ingested, requeued, platform, catchups, reactions, entities, submissions, schema, state>>

\* The worker of the row at position i completes.
StreamWorkerFinish(i) ==
    \E t \in tasks : t.id = i /\ WorkerFinish(t, "path")

InitStream ==
    /\ messages = {}
    /\ message_log = <<>>
    /\ download_queue = <<>>
    /\ chat_preferences = NoPreferences
    /\ \E c \in StreamConcurrencies :
          config = [account |-> "A", download |-> TRUE, max_mb |-> NoInt, concurrency |-> c,
                    stop_when_empty |-> FALSE]
    /\ sched = "start"
    /\ tasks = {}
    /\ tasks_recent = {}
    /\ now = 0
    /\ gaps = NoGaps
    /\ ingested = {}
    /\ transfers = {}
    /\ requeued = {}
    /\ platform = {}
    /\ catchups = NoCatchups
    /\ reactions = {}
    /\ entities = {}
    /\ submissions = NoSubmissions
    /\ schema = FullSchema
    /\ state = NoState

NextStream ==
    \/ \E file_size \in StreamSizes : StreamEnqueue(file_size)
    \/ Startup
    \/ StreamPass
    \/ \E i \in 1..StreamWindow : StreamWorkerFinish(i)

\* The scheduling loop keeps running and every dispatched worker completes: a
\* task's position only decreases, so it is at one position from some point on
\* for as long as it is not done.
SpecStream ==
    /\ InitStream
    /\ [][NextStream]_vars
    /\ WF_vars(Startup)
    /\ WF_vars(StreamPass)
    /\ \A i \in 1..StreamWindow : WF_vars(StreamWorkerFinish(i))

\* SpecTrigger: chat 100 of account A under live events, redeliveries and
\* catch-ups.  The platform holds the ids of TriggerIds: from 3, the id 13 is
\* at the distance HISTORIC_GAP_THRESHOLD and the id 15 beyond it.
TriggerIds == {1, 2, 3, 13, 15}
MaxTriggerLog == 3
MaxCatchups == 2

InitTrigger ==
    /\ messages = {}
    /\ message_log = <<>>
    /\ download_queue = <<>>
    /\ chat_preferences = NoPreferences
    /\ config = IdleConfig
    /\ sched = "off"
    /\ tasks = {}
    /\ tasks_recent = {}
    /\ now = 0
    /\ gaps = NoGaps
    /\ ingested = {}
    /\ transfers = {}
    /\ requeued = {}
    /\ platform = TriggerIds
    /\ catchups = NoCatchups
    /\ reactions = {}
    /\ entities = {}
    /\ submissions = NoSubmissions
    /\ schema = FullSchema
    /\ state = NoState

TriggerBound ==
    /\ Len(message_log') <= MaxTriggerLog
    /\ catchups'[<<100, "A">>] <= MaxCatchups

NextTrigger ==
    \/ \E i \in platform, stop \in StopPoints :
          ProcessMessage("A", PlatformEvent(100, i), stop) /\ TriggerBound
    \/ \E failed \in SUBSET {13} : BackgroundCatchUp(100, "A", failed) /\ TriggerBound
    \/ \E failed \in SUBSET {13} : CatchUpCommand(100, "A", failed) /\ TriggerBound

SpecTrigger == InitTrigger /\ [][NextTrigger]_vars

\* SpecLoop: the loop over all chats of run_listener for the dialogs 100 and
\* 200 of account A.  Both chats hold the ids of `platform`, a set of the ids
\* up to MaxLoopId that does not change; of each chat some were ingested live,
\* in the order of their ids.  The loop is `while True`: a pass is always
\* followed by another.
MaxLoopId == 3

InitLoop ==
    /\ \E held \in SUBSET (1..MaxLoopId) :
          \E S1 \in SUBSET held, S2 \in SUBSET held :
             \E st1 \in {process_batch([messages |-> {}, message_log |-> <<>>, launched |-> 0],
                                       100, SortedAsc(S1), "A", {})} :
                \E st2 \in {process_batch([messages |-> st1.messages,
                                            message_log |-> st1.message_log, launched |-> 0],
                                           200, SortedAsc(S2), "A", {})} :
                   /\ platform = held
                   /\ messages = st2.messages
                   /\ message_log = st2.message_log
                   /\ ingested = {<<100, i, "A">> : i \in S1} \cup {<<200, i, "A">> : i \in S2}
    /\ download_queue = <<>>
    /\ chat_preferences = NoPreferences
    /\ config = IdleConfig
    /\ sched = "off"
    /\ tasks = {}
    /\ tasks_recent = {}
    /\ now = 0
    /\ gaps = NoGaps
    /\ transfers = {}
    /\ requeued = {}
    /\ catchups = NoCatchups
    /\ reactions = {}
    /\ entities = {}
    /\ submissions = NoSubmissions
    /\ schema = FullSchema
    /\ state = NoState

NextLoop == BackfillPass

SpecLoop == InitLoop /\ [][NextLoop]_vars /\ WF_vars(BackfillPass)

\* SpecRetry: two submissions under their retry loops.
InitRetry ==
    /\ messages = {}
    /\ message_log = <<>>
    /\ download_queue = <<>>
    /\ chat_preferences = NoPreferences
    /\ config = IdleConfig
    /\ sched = "off"
    /\ tasks = {}
    /\ tasks_recent = {}
    /\ now = 0
    /\ gaps = NoGaps
    /\ ingested = {}
    /\ transfers = {}
    /\ requeued = {}
    /\ platform = {1, 2}
    /\ catchups = NoCatchups
    /\ reactions = {}
    /\ entities = {}
    /\ submissions = [c \in Calls |-> [pc |-> "call", retry_count |-> 0, wake |-> 0]]
    /\ schema = FullSchema
    /\ state = NoState

NextRetry ==
    \/ \E c \in Calls : AttemptRaises(c)
    \/ \E c \in Calls, stop \in {"none", "insert_message"} : AttemptReturns(c, stop)
    \/ \E c \in Calls : Wake(c)

SpecRetry == InitRetry /\ [][NextRetry]_vars

\* SpecDup: the gap trigger with a platform whose ids lie more than the
\* threshold apart: live events, the background catch-ups they create and
\* the catch-up command.
DupIds == {1, 12, 23, 24}

InitDup ==
    /\ messages = {}
    /\ message_log = <<>>
    /\ download_queue = <<>>
    /\ chat_preferences = NoPreferences
    /\ config = IdleConfig
    /\ sched = "off"
    /\ tasks = {}
    /\ tasks_recent = {}
    /\ now = 0
    /\ gaps = NoGaps
    /\ ingested = {}
    /\ transfers = {}
    /\ requeued = {}
    /\ platform = DupIds
    /\ catchups = NoCatchups
    /\ reactions = {}
    /\ entities = {}
    /\ submissions = NoSubmissions
    /\ schema = FullSchema
    /\ state = NoState

NextDup ==
    \/ \E i \in platform, stop \in StopPoints :
          ProcessMessage("A", PlatformEvent(100, i), stop) /\ TriggerBound
    \/ BackgroundCatchUp(100, "A", {}) /\ TriggerBound
    \/ CatchUpCommand(100, "A", {}) /\ TriggerBound

SpecDup == InitDup /\ [][NextDup]_vars

\* SpecReuse: the listeners of the accounts A and B ingest media messages of
\* chat 100 (two messages of A carry the same file, message 1 is seen by both
\* accounts) and the scheduler of account A downloads.
ReuseOutcomes == {"path", "no_path"}

InitReuse ==
    /\ messages = {}
    /\ message_log = <<>>
    /\ download_queue = <<>>
    /\ chat_preferences = NoPreferences
    /\ config = [account |-> "A", download |-> TRUE, max_mb |-> NoInt, concurrency |-> 2,
                 stop_when_empty |-> FALSE]
    /\ sched = "start"
    /\ tasks = {}
    /\ tasks_recent = {}
    /\ now = 0
    /\ gaps = NoGaps
    /\ ingested = {}
    /\ transfers = {}
    /\ requeued = {}
    /\ platform = {}
    /\ catchups = NoCatchups
    /\ reactions = {}
    /\ entities = {}
    /\ submissions = NoSubmissions
    /\ schema = FullSchema
    /\ state = NoState

NextReuse ==
    \/ \E f \in Feed : ProcessMessage(f[1], f[2], "none")
    \/ Startup
    \/ Pass
    \/ \E t \in tasks, outcome \in ReuseOutcomes : WorkerFinish(t, outcome)

SpecReuse == InitReuse /\ [][NextReuse]_vars

\* SpecLanes: the scheduler with concurrency 4 over LaneItems pending rows of
\* account A of every size, enqueued two at a time: consecutive rows share
\* their created_at.
LaneItems == 5

LaneRow(i, file_size) ==
    [PassRow(i, file_size) EXCEPT !.created_at = (i + 1) \div 2, !.updated_at = (i + 1) \div 2]

InitLanes ==
    /\ messages = {}
    /\ message_log = <<>>
    /\ \E sz \in [1..LaneItems -> Sizes] :
          download_queue = [i \in 1..LaneItems |-> LaneRow(i, sz[i])]
    /\ chat_preferences = NoPreferences
    /\ config = [account |-> "A", download |-> TRUE, max_mb |-> NoInt, concurrency |-> 4,
                 stop_when_empty |-> FALSE]
    /\ sched = "start"
    /\ tasks = {}
    /\ tasks_recent = {}
    /\ now = LaneItems + 1
    /\ gaps = NoGaps
    /\ ingested = {}
    /\ transfers = {}
    /\ requeued = {}
    /\ platform = {}
    /\ catchups = NoCatchups
    /\ reactions = {}
    /\ entities = {}
    /\ submissions = NoSubmissions
    /\ schema = FullSchema
    /\ state = NoState

NextLanes ==
    \/ Startup
    \/ Pass
    \/ \E t \in tasks : WorkerFinish(t, "path")

SpecLanes == InitLanes /\ [][NextLanes]_vars

\* SpecSweep: the time-based sweep over a queue of SweepItems rows of the
\* accounts A and B in every status, those of A last updated at minute 0 or 2
\* and those of B at minute 0, from minute 2 to minute MaxClock, with the
\* ages 1 and 2.
SweepItems == 3
MaxClock == 4
SweepMinutes == {1, 2}
SweepOwners == {<<"A", 0>>, <<"A", 2>>, <<"B", 0>>}

SweepRow(i, status, account_phone, updated_at) ==
    [id |-> i, msg_id |-> i, chat_id |-> 100, account_phone |-> account_phone,
     file_size |-> NoInt, file_unique_id |-> NULL, status |-> status,
     attempts |-> IF status = "pending" THEN 0 ELSE 1,
     path |-> IF status = "done" THEN Target(100, i) ELSE NULL,
     error |-> IF status = "failed" THEN OutcomeError("no_path") ELSE NULL,
     created_at |-> 0, updated_at |-> updated_at]

InitSweep ==
    /\ messages = {}
    /\ message_log = <<>>
    /\ \E st \in [1..SweepItems -> {"pending", "in_progress", "done", "failed"}],
          own \in [1..SweepItems -> SweepOwners] :
          download_queue = [i \in 1..SweepItems |->
                               SweepRow(i, st[i], own[i][1], own[i][2])]
    /\ chat_preferences = NoPreferences
    /\ config = IdleConfig
    /\ sched = "off"
    /\ tasks = {}
    /\ tasks_recent = {}
    /\ now = 2
    /\ gaps = NoGaps
    /\ ingested = {}
    /\ transfers = {}
    /\ requeued = {}
    /\ platform = {}
    /\ catchups = NoCatchups
    /\ reactions = {}
    /\ entities = {}
    /\ submissions = NoSubmissions
    /\ schema = FullSchema
    /\ state = NoState

NextSweep ==
    \/ \E n \in SweepMinutes, a \in Accounts : TimedSweep(n, a)
    \/ Tick(MaxClock)

SpecSweep == InitSweep /\ [][NextSweep]_vars

\* SpecSchema: the listener and the scheduler of account A, started with
\* download enabled on a database that has any part of the schema or all of
\* it, and the messages 1 and 2 (photos) and 3 (text) of chat 100.
Schemas == {sch \in SUBSET SchemaParts :
               "download_queue.account_phone" \in sch => "download_queue" \in sch}
SchemaEvents == {ev \in MediaEvents : ev.chat_id = 100} \cup {PlatformEvent(100, 3)}

InitSchema ==
    /\ messages = {}
    /\ message_log = <<>>
    /\ download_queue = <<>>
    /\ chat_preferences = NoPreferences
    /\ config = [account |-> "A", download |-> TRUE, max_mb |-> NoInt, concurrency |-> 2,
                 stop_when_empty |-> FALSE]
    /\ sched = "start"
    /\ tasks = {}
    /\ tasks_recent = {}
    /\ now = 0
    /\ gaps = NoGaps
    /\ ingested = {}
    /\ transfers = {}
    /\ requeued = {}
    /\ platform = {}
    /\ catchups = NoCatchups
    /\ reactions = {}
    /\ entities = {}
    /\ submissions = NoSubmissions
    /\ schema \in Schemas
    /\ state = NoState

NextSchema ==
    \/ \E ev \in SchemaEvents : ProcessMessageOnSchema("A", ev)
    \/ StartupOnSchema
    \/ PassOnSchema
    \/ \E t \in tasks, outcome \in ReuseOutcomes : WorkerFinish(t, outcome)

SpecSchema == InitSchema /\ [][NextSchema]_vars

\* SpecMark: the live ingestion of the messages of chat 100 and the
\* placeholder marking of the same ids, in any order.
MarkIds == {1, 3, 15}

NextMark ==
    \/ \E i \in MarkIds, stop \in StopPoints :
          ProcessMessage("A", PlatformEvent(100, i), stop) /\ TriggerBound
    \/ \E i \in MarkIds : MarkUnrecoverable(100, i, "A")

SpecMark == InitTrigger /\ [][NextMark]_vars

\* SpecFill: the gap filling of run_listener for chat 100 of account A.  The
\* platform holds a set of the ids up to MaxFillId; some of them were ingested
\* live, in the order of their ids.
MaxFillId == 5

InitFill ==
    /\ \E held \in SUBSET (1..MaxFillId) :
          \E S \in SUBSET held :
             \E st \in {process_batch([messages |-> {}, message_log |-> <<>>, launched |-> 0],
                                      100, SortedAsc(S), "A", {})} :
                /\ platform = held
                /\ messages = st.messages
                /\ message_log = st.message_log
                /\ ingested = {<<100, i, "A">> : i \in S}
    /\ download_queue = <<>>
    /\ chat_preferences = NoPreferences
    /\ config = IdleConfig
    /\ sched = "off"
    /\ tasks = {}
    /\ tasks_recent = {}
    /\ now = 0
    /\ gaps = NoGaps
    /\ transfers = {}
    /\ requeued = {}
    /\ catchups = NoCatchups
    /\ reactions = {}
    /\ entities = {}
    /\ submissions = NoSubmissions
    /\ schema = FullSchema
    /\ state = NoState

\* The loop reads the gaps with limit=100.
NextFill ==
    \/ GetChatGaps(100, "A", 100)
    \/ \E k \in 1..MaxFillId, failed \in SUBSET {3} :
          FillGap(k, failed) /\ Len(message_log') <= MaxFillId + 1
    \/ CatchUpCommand(100, "A", {}) /\ Len(message_log') <= MaxFillId + 1

SpecFill == InitFill /\ [][NextFill]_vars

\* SpecMedia: the listener of account A with downloads on, from the message
\* event to the stored file.  Two media messages of chat 100: one of 2 MB with
\* a file.unique_id, one of unknown size without; --max-mb is unset, 1 or 2.
PolicyEvents ==
    {[chat_id |-> 100, id |-> 1, text |-> "t1", media |-> "document", date |-> 1,
      edit_date |-> NoInt, file_size |-> Known(2 * BytesPerMb), file_unique_id |-> "u1"],
     [chat_id |-> 100, id |-> 2, text |-> "t1", media |-> "photo", date |-> 2,
      edit_date |-> NoInt, file_size |-> NoInt, file_unique_id |-> NULL]}
MaxMbChoices == {NoInt, Known(1), Known(2)}

InitMedia ==
    /\ messages = {}
    /\ message_log = <<>>
    /\ download_queue = <<>>
    /\ chat_preferences = NoPreferences
    /\ \E max_mb \in MaxMbChoices :
          config = [account |-> "A", download |-> TRUE, max_mb |-> max_mb, concurrency |-> 2,
                    stop_when_empty |-> FALSE]
    /\ sched = "start"
    /\ tasks = {}
    /\ tasks_recent = {}
    /\ now = 0
    /\ gaps = NoGaps
    /\ ingested = {}
    /\ transfers = {}
    /\ requeued = {}
    /\ platform = {}
    /\ catchups = NoCatchups
    /\ reactions = {}
    /\ entities = {}
    /\ submissions = NoSubmissions
    /\ schema = FullSchema
    /\ state = NoState

NextMedia ==
    \/ \E ev \in PolicyEvents, stop \in {"none"} \cup MediaStopPoints :
          ProcessMessage("A", ev, stop)
    \/ \E enabled \in BOOLEAN : SetPreference(100, "A", enabled)
    \/ Startup
    \/ Pass
    \/ \E t \in tasks, outcome \in WorkerOutcomes : WorkerFinish(t, outcome)
    \/ \E max_mb \in MaxMbChoices : Restart(max_mb)

SpecMedia == InitMedia /\ [][NextMedia]_vars

\* SpecOrder: the messages 1..MaxOrderId of chat 100 reach _process_message
\* of account A once each, in any order (a live message before or after an
\* older one that a backfill delivers), and every submission succeeds.
MaxOrderId == 5
OrderEvents ==
    {[chat_id |-> 100, id |-> i, text |-> IF i % 2 = 1 THEN "t1" ELSE "t2",
      media |-> IF i = 2 THEN "photo" ELSE NULL, date |-> i,
      edit_date |-> IF i % 2 = 1 THEN NoInt ELSE Known(i + 1),
      file_size |-> NoInt, file_unique_id |-> NULL] : i \in 1..MaxOrderId}

InitOrder ==
    /\ messages = {}
    /\ message_log = <<>>
    /\ download_queue = <<>>
    /\ chat_preferences = NoPreferences
    /\ config = IdleConfig
    /\ sched = "off"
    /\ tasks = {}
    /\ tasks_recent = {}
    /\ now = 0
    /\ gaps = NoGaps
    /\ ingested = {}
    /\ transfers = {}
    /\ requeued = {}
    /\ platform = 1..MaxOrderId
    /\ catchups = NoCatchups
    /\ reactions = {}
    /\ entities = {}
    /\ submissions = NoSubmissions
    /\ schema = FullSchema
    /\ state = NoState

NextOrder ==
    \E ev \in OrderEvents :
       /\ <<ev.chat_id, ev.id, "A">> \notin ingested
       /\ ProcessMessage("A", ev, "none")

SpecOrder == InitOrder /\ [][NextOrder]_vars

\* SpecEdit: three messages of chat 100 in the process of account A, each as
\* the NewMessage event of its original and as the MessageEdited event of its
\* edit; message.date is the same in both, the edit carries an edit_date.
EditIds == {1, 2, 3}
OriginalEvents ==
    {[chat_id |-> 100, id |-> i, text |-> "t1", media |-> NULL, date |-> 1,
      edit_date |-> NoInt, file_size |-> NoInt, file_unique_id |-> NULL] : i \in EditIds}
EditedEvents ==
    {[chat_id |-> 100, id |-> i, text |-> "t2", media |-> NULL, date |-> 1,
      edit_date |-> Known(2), file_size |-> NoInt, file_unique_id |-> NULL] : i \in EditIds}

InitEdit ==
    /\ messages = {}
    /\ message_log = <<>>
    /\ download_queue = <<>>
    /\ chat_preferences = NoPreferences
    /\ config = IdleConfig
    /\ sched = "off"
    /\ tasks = {}
    /\ tasks_recent = {}
    /\ now = 0
    /\ gaps = NoGaps
    /\ ingested = {}
    /\ transfers = {}
    /\ requeued = {}
    /\ platform = EditIds
    /\ catchups = NoCatchups
    /\ reactions = {}
    /\ entities = {}
    /\ submissions = NoSubmissions
    /\ schema = FullSchema
    /\ state = NoState

NextEdit ==
    \/ \E ev \in OriginalEvents, stop \in StopPoints : ProcessMessage("A", ev, stop)
    \/ \E ev \in EditedEvents, stop \in {"none", "insert_message_log"} :
          ProcessEditedMessage("A", ev, stop)
    \/ \E i \in EditIds : MarkUnrecoverable(100, i, "A")
    \/ CatchUpCommand(100, "A", {})

SpecEdit == InitEdit /\ [][NextEdit]_vars

\* SpecReact: two messages of chat 100 in the process of account A, whose
\* events (NewMessage, redelivery, MessageEdited) carry no, one or two
\* reactions and no or one entity.
ReactionSets == {{}, {<<"like", 1>>}, {<<"like", 2>>, <<"heart", 1>>}}
EntitySets == {{}, {<<"MessageEntityUrl", 0, 4>>}}
ReactEvents ==
    {[chat_id |-> 100, id |-> i, text |-> "t1", media |-> NULL, date |-> 1,
      edit_date |-> NoInt, file_size |-> NoInt, file_unique_id |-> NULL,
      reactions |-> rs, entities |-> es] : i \in {1, 2}, rs \in ReactionSets, es \in EntitySets}
ReactEdits ==
    {[ev EXCEPT !.text = "t2", !.edit_date = Known(2)] : ev \in ReactEvents}

NextReact ==
    \/ \E ev \in ReactEvents, stop \in StopPoints : ProcessMessage("A", ev, stop)
    \/ \E ev \in ReactEdits, stop \in {"none", "insert_message_log"} :
          ProcessEditedMessage("A", ev, stop)

SpecReact == InitMsg /\ [][NextReact]_vars

(***************************************************************************)
(* Properties                                                              *)
(***************************************************************************)
Identities == Chats \X (1..MaxMsgId) \X Accounts

\* C1: after any sequence of ingests, replays, redeliveries and placeholder
\* inserts, in any order, the messages table holds at most one row per
\* (chat_id, msg_id, account_phone), and exactly one row for every identity
\* that was ingested or marked at least once.
C1_OneRowPerIdentity ==
    \A k \in Identities :
        /\ Cardinality(RowsOf(messages, k[1], k[2], k[3])) <= 1
        /\ k \in ingested => Cardinality(RowsOf(messages, k[1], k[2], k[3])) = 1

\* An identity was ingested twice with different content, after a placeholder
\* had been marked for another identity, and a placeholder insert met a row.
C1_Witness ==
    /\ \E i \in 1..Len(message_log), r \in messages :
          /\ message_log[i].telegram_msg_id = r.msg_id
          /\ message_log[i].account_phone = r.account_phone
          /\ message_log[i].text # r.text
          /\ r.media_type = NULL
    /\ \E r \in messages : r.media_type = "unrecoverable"
    /\ Cardinality(ingested) >= 2

\* The maximal runs of ids missing from S that lie between two ids of S.
MissingRuns(S) ==
    {[gap_start |-> a, gap_end |-> b, gap_size |-> b - a + 1] :
        <<a, b>> \in {ab \in (1..MaxGapId) \X (1..MaxGapId) :
                        /\ ab[1] <= ab[2]
                        /\ \A k \in ab[1]..ab[2] : k \notin S
                        /\ ab[1] - 1 \in S
                        /\ ab[2] + 1 \in S}}

PersistedIds(chat_id, account_phone) ==
    {r.msg_id : r \in {x \in messages : x.chat_id = chat_id /\ x.account_phone = account_phone}}

\* C3: for every set of persisted ids of one chat and account, placeholders
\* included, get_chat_gaps returns exactly the maximal runs of missing ids
\* between two persisted ids, each as (start, end, size), ordered by size
\* descending and truncated to the limit: the largest runs, none twice; for
\* {1,2,5,6,9} these are (3,4,2) and (7,8,2), and for contiguous ids none.
C3_GapsAreMissingRuns ==
    gaps.called =>
        LET S == PersistedIds(gaps.chat_id, gaps.account_phone)
            E == MissingRuns(S)
            res == gaps.result
        IN  /\ Range(res) \subseteq E
            /\ Cardinality(Range(res)) = Len(res)
            /\ Len(res) = IF Cardinality(E) < gaps.limit THEN Cardinality(E) ELSE gaps.limit
            /\ \A i, j \in 1..Len(res) : i < j => res[i].gap_size >= res[j].gap_size
            /\ \A e \in E \ Range(res) : \A i \in 1..Len(res) : res[i].gap_size >= e.gap_size
            /\ (S = {1, 2, 5, 6, 9} /\ gaps.limit >= 2) =>
                  Range(res) = {[gap_start |-> 3, gap_end |-> 4, gap_size |-> 2],
                                [gap_start |-> 7, gap_end |-> 8, gap_size |-> 2]}
            /\ (S # {} /\ S = Min(S)..Max(S)) => res = <<>>

\* get_chat_gaps was called for the ids {1,2,5,6,9}, two of them placeholders,
\* beside rows of another chat and of another account, and gave two gaps.
C3_Witness ==
    /\ gaps.called
    /\ PersistedIds(100, "A") = {1, 2, 5, 6, 9}
    /\ \E r \in messages : r.media_type = "unrecoverable"
    /\ \E r \in messages : r.account_phone = "B"
    /\ Len(gaps.result) = 2

QueueKeys == {<<f[2].chat_id, f[2].id, f[1]>> : f \in Feed}

RowsOfKey(q, k) == {i \in 1..Len(q) : NaturalKey(q[i]) = k}

\* C2: enqueue_download called any number of times with one (chat_id, msg_id,
\* account_phone) leaves exactly one download_queue row for that key, and a call
\* after the first leaves that row's status, attempts, path and error as they
\* were.
C2_EnqueueIdempotent ==
    [][\A k \in QueueKeys :
          /\ Cardinality(RowsOfKey(download_queue', k)) <= 1
          /\ k \in requeued' => Cardinality(RowsOfKey(download_queue', k)) = 1
          /\ (k \in requeued' /\ k \notin requeued) =>
                \A i \in RowsOfKey(download_queue, k) :
                    /\ download_queue'[i].status = download_queue[i].status
                    /\ download_queue'[i].attempts = download_queue[i].attempts
                    /\ download_queue'[i].path = download_queue[i].path
                    /\ download_queue'[i].error = download_queue[i].error]_vars

\* enqueue_download was called again for a key whose row had left pending: one
\* that failed and one that is in progress.
C2_Witness ==
    \E k1, k2 \in requeued :
        /\ \E i \in RowsOfKey(download_queue, k1) : download_queue[i].status = "failed"
        /\ \E i \in RowsOfKey(download_queue, k2) : download_queue[i].status = "in_progress"

\* C4: in every reachable state of the scheduler the tasks dispatched and not
\* yet reaped are at most `concurrency`, whatever the number of pending rows
\* and however the workers' completions interleave with the passes.
C4_ConcurrencyBound == Cardinality(tasks) <= config.concurrency

\* The pool is full, one of its workers has completed and is not reaped, and
\* a row is still pending.
C4_Witness ==
    /\ Cardinality(tasks) = config.concurrency
    /\ \E t \in tasks : t.done
    /\ \E t \in tasks : ~t.done /\ t.tid \notin tasks_recent
    /\ \E i \in 1..Len(download_queue) : download_queue[i].status = "pending"

\* A step of the scheduler's loop that reaps or dispatches: the set of tasks
\* changes its members while the scheduler runs.
TaskIds(ts) == {t.tid : t \in ts}
PassStep == sched = "run" /\ sched' = "run" /\ TaskIds(tasks') # TaskIds(tasks)

\* The tasks a step dispatches, and the ones among them of the recent lane.
Dispatched == {t \in tasks' : t.tid \notin TaskIds(tasks)}
DispatchedRecent == {t \in Dispatched : t.tid \in tasks_recent'}

StatusSteps ==
    {<<"pending", "in_progress">>, <<"in_progress", "done">>,
     <<"in_progress", "failed">>, <<"in_progress", "pending">>}

\* C5: every status change of a download_queue row is pending -> in_progress,
\* in_progress -> done, in_progress -> failed or in_progress -> pending; a row
\* that is done never changes status again, also when a recovery reset runs
\* while a worker for the row is in flight.
C5_StatusTransitions ==
    [][\A i \in 1..Len(download_queue) :
          \/ download_queue'[i].status = download_queue[i].status
          \/ <<download_queue[i].status, download_queue'[i].status>> \in StatusSteps]_vars

\* C6: every row of the scheduler's account that is in_progress when the
\* scheduler starts is pending after the startup sweep, whatever its age, and
\* the two pending queries return it like any other pending row (its chat's
\* preference permitting); a pass with free slots for every pending row
\* dispatches it.
C6_StartupRecovery ==
    [][/\ (sched = "start" /\ sched' = "run") =>
            \A i \in 1..Len(download_queue) :
                (download_queue[i].status = "in_progress"
                     /\ download_queue[i].account_phone = config.account) =>
                   /\ download_queue'[i].status = "pending"
                   /\ is_media_download_enabled(chat_preferences, download_queue[i].chat_id,
                                                config.account) =>
                         /\ i \in Range(fetch_pending_downloads(download_queue', chat_preferences,
                                            Len(download_queue'), config.account))
                         /\ i \in Range(fetch_recent_pending_downloads(download_queue',
                                            chat_preferences, Len(download_queue'), config.account))
       /\ PassStep =>
            \A i \in PendingEligible(download_queue, chat_preferences, config.account) :
                (download_queue[i].attempts > 0
                     /\ Cardinality(PendingEligible(download_queue, chat_preferences, config.account))
                            <= config.concurrency - Cardinality({t \in tasks : ~t.done})) =>
                   download_queue'[i].status = "in_progress"]_vars

\* A row left in_progress by a process that died was reset by the startup sweep
\* of the next one, in the same instant it was marked, and is dispatched again.
C6_Witness ==
    /\ sched = "run"
    /\ \E i \in 1..Len(download_queue) :
          /\ download_queue[i].status = "in_progress"
          /\ download_queue[i].attempts = 2
          /\ download_queue[i].updated_at = now
          /\ Cardinality({t \in tasks : t.id = i}) = 1
          /\ \A t \in tasks : t.id = i => t.tid = <<i, 2>>

\* C7: for two rows with the same non-null file_unique_id, once the first is
\* done with path P, the worker of the second resolves it to P (row done with
\* path P) without invoking a transfer, whether the second row was enqueued
\* before or after the first was done.
C7_WorkerDeduplicates ==
    [][\A t \in tasks :
          (~t.done /\ [t EXCEPT !.done = TRUE] \in tasks') =>
             \A i \in 1..Len(download_queue) :
                (/\ i # t.id
                 /\ download_queue[i].file_unique_id # NULL
                 /\ download_queue[i].file_unique_id = download_queue[t.id].file_unique_id
                 /\ download_queue[i].status = "done") =>
                    /\ download_queue'[t.id].status = "done"
                    /\ download_queue'[t.id].path = download_queue[i].path
                    /\ transfers' = transfers]_vars

\* file_size a sorts before file_size b: ascending, unknown sizes last.
SizeBefore(a, b) == IsKnown(a) /\ (~IsKnown(b) \/ Val(a) < Val(b))

RecentBefore(i, j) ==
    \/ SizeBefore(download_queue[i].file_size, download_queue[j].file_size)
    \/ /\ download_queue[i].file_size = download_queue[j].file_size
       /\ download_queue[i].created_at > download_queue[j].created_at

FifoBefore(i, j) ==
    \/ SizeBefore(download_queue[i].file_size, download_queue[j].file_size)
    \/ /\ download_queue[i].file_size = download_queue[j].file_size
       /\ download_queue[i].created_at < download_queue[j].created_at

Newer(i, j) == download_queue[i].created_at > download_queue[j].created_at
Older(i, j) == download_queue[i].created_at < download_queue[j].created_at

\* The first k of ids in the order Before.
FirstBy(ids, k, Before(_, _)) == {i \in ids : Cardinality({j \in ids : Before(j, i)}) < k}

\* A pass that starts with no active task, concurrency 4 and every row pending.
FirstPassOfFour ==
    /\ PassStep
    /\ tasks = {}
    /\ config.concurrency = 4
    /\ \A i \in 1..Len(download_queue) : download_queue[i].status = "pending"

EligiblePending ==
    {i \in 1..Len(download_queue) :
        /\ download_queue[i].status = "pending"
        /\ download_queue[i].account_phone = config.account
        /\ chat_preferences[<<download_queue[i].chat_id, config.account>>] # <<FALSE>>}

\* C9 as stated: in every pass that dispatches a row while eligible pending
\* rows exist, at least min(R, eligible pending rows) of the rows it dispatches
\* go through the recent lane, whatever number of recent-lane tasks is still
\* active from earlier passes.
C9_RecentLaneFirst ==
    [][(PassStep /\ Dispatched # {}) =>
          Cardinality(DispatchedRecent) >= Min({min_recent_slots, Cardinality(EligiblePending)})]_vars

\* C9, amended: a pass dispatches through the recent lane exactly
\* min(max(0, R - recent-lane tasks still active), free slots, eligible pending
\* rows) rows, and by FIFO the rows that fit in the slots left after them.
C9_RecentLaneQuota ==
    [][PassStep =>
          LET live == {t \in tasks : ~t.done}
              active_recent == Cardinality({t \in live : t.tid \in tasks_recent})
              free == config.concurrency - Cardinality(live)
              quota == Min({Max({0, min_recent_slots - active_recent}), free,
                            Cardinality(EligiblePending)})
          IN  /\ Cardinality(DispatchedRecent) = quota
              /\ Cardinality(Dispatched \ DispatchedRecent) =
                    Min({free - quota, Cardinality(EligiblePending) - quota})]_vars

\* Rows of one size: the three newest are active in the recent lane, the
\* worker of the oldest row, dispatched by FIFO, has completed and was reaped,
\* and the pass gave its slot to the row left pending, by FIFO.
C9_Witness ==
    /\ \A i, j \in 1..Len(download_queue) :
          download_queue[i].file_size = download_queue[j].file_size
    /\ Cardinality({t \in tasks : ~t.done /\ t.tid \in tasks_recent}) = 3
    /\ download_queue[1].status = "done"
    /\ \E t \in tasks : t.id = 2 /\ ~t.done /\ t.tid \notin tasks_recent

PendingOfSize(file_size) ==
    {i \in 1..Len(download_queue) :
        download_queue[i].status = "pending" /\ download_queue[i].file_size = file_size}

\* A pass dispatches the oldest pending row of the size.
DispatchOldest(file_size) ==
    /\ PendingOfSize(file_size) # {}
    /\ StreamPass
    /\ StreamPassResult.q[Min(PendingOfSize(file_size))].status = "in_progress"

PersistedOfA(tbl) == {r.msg_id : r \in {x \in tbl : x.chat_id = 100 /\ x.account_phone = "A"}}

\* C12: an invocation of the backfill for a chat and account, the one the
\* gap step launched included, hands the ingestor every id the platform holds
\* and the history lacks, above the persisted maximum and in the gaps below
\* it: when no insert fails, every id of the platform above the oldest
\* persisted id is persisted after it.
C12_BackfillFillsGaps ==
    [][(BackgroundCatchUp(100, "A", {}) \/ CatchUpCommand(100, "A", {}))
          => \A i \in platform :
                (\E j \in PersistedOfA(messages) : j < i) => i \in PersistedOfA(messages')]_vars

\* C13: when _process_message inserts the message of a new-message event, a
\* background catch-up is launched if and only if the message id minus the
\* maximum id persisted for the chat and account before the insert is greater
\* than the threshold; an id at or below that maximum launches none.
C13_GapTrigger ==
    [][\A i \in TriggerIds, stop \in StopPoints \ {"insert_message"} :
          ProcessMessage("A", PlatformEvent(100, i), stop) =>
             LET previous_max_id == Max(PersistedOfA(messages) \cup {0})
                 launched == catchups'[<<100, "A">>] - catchups[<<100, "A">>]
             IN  /\ launched = (IF i - previous_max_id > HISTORIC_GAP_THRESHOLD THEN 1 ELSE 0)
                 /\ i <= previous_max_id => launched = 0]_vars

\* Ids 1, 2, 3 and then 15 were ingested, 13 was not: the gap was 12 and one
\* catch-up is launched.
C13_Witness ==
    /\ PersistedOfA(messages) = {1, 2, 3, 15}
    /\ message_log # <<>>
    /\ message_log[Len(message_log)].telegram_msg_id = 15
    /\ catchups[<<100, "A">>] = 1

\* C11: when the gap filling requests a range from the platform, every id of
\* the range that the platform did not return has a placeholder row of
\* media_type unrecoverable afterwards, and with the returned ids persisted
\* get_chat_gaps reports no range that overlaps it.
C11_UnreturnedBecomePlaceholders ==
    [][\A k \in 1..MaxFillId, failed \in SUBSET {3} :
          FillGap(k, failed) =>
             LET gap_start == gaps.result[k].gap_start
                 gap_end == gaps.result[k].gap_end
                 unreturned == (gap_start..gap_end) \ platform
             IN  /\ \A i \in unreturned :
                       \E r \in messages' :
                          /\ Identity(r) = <<100, i, "A">>
                          /\ r.media_type = "unrecoverable"
                 /\ failed = {} =>
                       \A g \in gap_rows(messages', 100, "A") :
                          g.gap_end < gap_start \/ gap_end < g.gap_start]_vars

\* The range [2, 4] was requested, the platform returned 3 only: 3 is a
\* message, 2 and 4 are placeholders.
C11_Witness ==
    /\ gaps.called
    /\ \E k \in 1..Len(gaps.result) :
          gaps.result[k].gap_start = 2 /\ gaps.result[k].gap_end = 4
    /\ platform \cap (2..4) = {3}
    /\ \A i \in {2, 4} :
          \E r \in messages : Identity(r) = <<100, i, "A">> /\ r.media_type = "unrecoverable"
    /\ \E r \in messages : Identity(r) = <<100, 3, "A">> /\ r.media_type = NULL

\* C14: submitting the same new-message event again, with the same chat_id,
\* msg_id, account, created_at and edit state, leaves exactly one messages
\* row and exactly one message_log row for that version: the second
\* submission adds no log row.
C14_OneLogEntryPerVersion ==
    /\ \A i, j \in 1..Len(message_log) :
          (/\ MessageLogKey(message_log[i]) = MessageLogKey(message_log[j])
           /\ message_log[i].edit_date = message_log[j].edit_date
           /\ message_log[i].edited = message_log[j].edited) => i = j
    /\ \A e \in Range(message_log) :
          Cardinality(RowsOf(messages, e.chat_id, e.telegram_msg_id, e.account_phone)) <= 1

\* An event was submitted, logged, and submitted again: its second upsert
\* set has_log back to FALSE and the log kept its one row.
C14_Witness ==
    \E r \in messages :
       /\ ~r.has_log
       /\ r.media_type = NULL
       /\ Cardinality({i \in 1..Len(message_log) :
                          /\ message_log[i].telegram_msg_id = r.msg_id
                          /\ message_log[i].account_phone = r.account_phone
                          /\ message_log[i].text = r.text}) = 1

\* C15: the upsert of a message that is persisted already (a redelivery, a
\* backfill replay) overwrites the fields the event supplies only: the
\* media_file_path a completed download recorded is the same after it.
C15_UpsertKeepsMediaPath ==
    [][\A ev \in PolicyEvents :
          ProcessMessage("A", ev, "none") =>
             \A r \in RowsOf(messages, ev.chat_id, ev.id, "A") :
                r.media_file_path # NULL =>
                   \E r2 \in RowsOf(messages', ev.chat_id, ev.id, "A") :
                      r2.media_file_path = r.media_file_path]_vars

\* C16: a scheduler started with stop_when_empty terminates once no eligible
\* item is pending and no worker is active: the iteration of the loop that
\* reaps the last task and finds nothing to dispatch leaves the loop.
C16_StopWhenEmptyTerminates ==
    [][(/\ Pass
        /\ config.stop_when_empty
        /\ tasks' = {}
        /\ PendingEligible(download_queue', chat_preferences, config.account) = {})
          => sched' = "stopped"]_vars

\* The ages a recovery sweep is run with: none, 0 minutes, the default 10.
SweepAges == {NoInt, Known(0), Known(10)}

\* C17: a failed item is left alone by the scheduler.  No startup sweep and
\* no scheduling pass changes a row whose status is failed or creates a task
\* for it, and no recovery sweep, whatever its age and account, resets it.
C17_FailedStaysFailed ==
    [][/\ \/ \A i \in 1..Len(download_queue) :
                download_queue[i].status = "failed" =>
                   /\ download_queue'[i] = download_queue[i]
                   /\ \A t \in tasks' : t.id = i => t \in tasks
          \/ ~(Startup \/ Pass)
       /\ \A age \in SweepAges, acc \in {NULL, "A", "B"} :
             \E swept \in {reset_stuck_downloads(download_queue', age, acc, now)} :
                \A i \in 1..Len(download_queue) :
                   download_queue'[i].status = "failed" => swept[i] = download_queue'[i]]_vars

\* A failed row whose task a pass has reaped, while that pass or a later one
\* has dispatched another row.
C17_Witness ==
    \E i, j \in 1..Len(download_queue) :
       /\ download_queue[i].status = "failed"
       /\ \A t \in tasks : t.id # i
       /\ download_queue[j].status = "in_progress"
       /\ \E t \in tasks : t.id = j /\ ~t.done

\* The outcomes with which a worker fails.
FailingOutcomes == {"not_found", "raises_long", "no_path"}

\* C18: when the worker of an item fails (message not found, the transfer
\* raises, no path returned), the item is failed with an error text of at
\* most 500 characters, the scheduling loop keeps running, and no other row
\* and no other task is touched: each is left to its own outcome.
C18_WorkerFailureIsContained ==
    [][\A t \in tasks, outcome \in FailingOutcomes :
          WorkerFinish(t, outcome) =>
             /\ download_queue'[t.id].status = "failed"
             /\ download_queue'[t.id].error.len <= ErrorLimit
             /\ download_queue'[t.id].error.text = OutcomeError(outcome).text
             /\ sched' = "run"
             /\ \A i \in 1..Len(download_queue) : i # t.id => download_queue'[i] = download_queue[i]
             /\ \A u \in tasks : u # t => u \in tasks'
             /\ messages' = messages]_vars

\* A worker has failed with an error text longer than the column keeps, and
\* the other item has been downloaded.
C18_Witness ==
    \E i, j \in 1..Len(download_queue) :
       /\ download_queue[i].status = "failed"
       /\ download_queue[i].error = [text |-> "exception", len |-> ErrorLimit]
       /\ download_queue[j].status = "done"
       /\ sched = "run"

\* The pending rows of a chat of account A in q.
PendingOfChat(q, chat_id) ==
    {i \in 1..Len(q) : q[i].chat_id = chat_id /\ q[i].account_phone = "A" /\ q[i].status = "pending"}

\* C19: while media_download_enabled of a chat is false, ingesting a message
\* of the chat creates no queue item and a scheduling pass dispatches none of
\* its pending items, which stay as they are.  While the preference has no
\* row or is true, ingesting a media message within the size limit leaves a
\* queue item for it, and a pass dispatches the pending items of the chat up
\* to the concurrency, also those that waited while the preference was false.
C19_PreferenceGatesBoth ==
    [][/\ \A ev \in PolicyEvents :
             ProcessMessage("A", ev, "none") =>
                IF chat_preferences[<<ev.chat_id, "A">>] = <<FALSE>>
                THEN download_queue' = download_queue
                ELSE OverSize(ev.file_size, config.max_mb)
                        \/ HasKey(download_queue', ev.chat_id, ev.id, "A")
       /\ \/ IF chat_preferences[<<100, "A">>] = <<FALSE>>
             THEN \A i \in PendingOfChat(download_queue, 100) :
                     /\ download_queue'[i] = download_queue[i]
                     /\ \A t \in tasks' : t.id # i
             ELSE \A i \in PendingOfChat(download_queue, 100) :
                     \/ /\ download_queue'[i].status = "in_progress"
                        /\ \E t \in tasks' \ tasks : t.id = i
                     \/ Cardinality(tasks') >= config.concurrency
          \/ ~Pass]_vars

\* The preference of chat 100 is false: the item of message 1, enqueued
\* before, is pending and has no task, and message 2, whose size is unknown,
\* has been ingested without a queue item.
C19_Witness ==
    /\ chat_preferences[<<100, "A">>] = <<FALSE>>
    /\ sched = "run"
    /\ \E i \in PendingOfChat(download_queue, 100) :
          download_queue[i].msg_id = 1 /\ \A t \in tasks : t.id # i
    /\ <<100, 2, "A">> \in ingested
    /\ ~HasKey(download_queue, 100, 2, "A")

\* A maximum is configured and the size is known and larger than it.
Exceeds(file_size, max_mb) ==
    /\ max_mb # NoInt
    /\ file_size # NoInt
    /\ Val(file_size) > Val(max_mb) * 1024 * 1024

\* C20: with a maximum size configured, ingesting a message whose known size
\* exceeds it creates no queue item, and the worker of a queued item whose
\* size exceeds it transfers nothing and records no path.  A size that is
\* unknown, or not larger than the maximum, is not skipped: ingesting the
\* message (preference not false) leaves a queue item for it, and its worker,
\* when the platform gives the file, transfers it and marks the item done.
C20_SizeLimit ==
    [][/\ \A ev \in PolicyEvents :
             ProcessMessage("A", ev, "none") =>
                IF Exceeds(ev.file_size, config.max_mb)
                THEN download_queue' = download_queue
                ELSE chat_preferences[<<ev.chat_id, "A">>] = <<FALSE>>
                        \/ HasKey(download_queue', ev.chat_id, ev.id, "A")
       /\ \A t \in tasks, outcome \in WorkerOutcomes :
             WorkerFinish(t, outcome) =>
                IF Exceeds(download_queue[t.id].file_size, config.max_mb)
                THEN /\ transfers' = transfers
                     /\ messages' = messages
                     /\ download_queue'[t.id].status = "failed"
                ELSE outcome = "path" =>
                        /\ t.id \in transfers'
                        /\ download_queue'[t.id].status = "done"]_vars

\* With --max-mb 1, the item of the 2 MB message, queued under another
\* setting, has been dispatched and failed without a transfer, and the item
\* of unknown size has been transferred.
C20_Witness ==
    /\ config.max_mb = Known(1)
    /\ \E i, j \in 1..Len(download_queue) :
          /\ download_queue[i].msg_id = 1
          /\ download_queue[i].status = "failed"
          /\ download_queue[i].error.text = "Sin ruta devuelta"
          /\ download_queue[i].attempts = 1
          /\ i \notin transfers
          /\ download_queue[j].file_size = NoInt
          /\ download_queue[j].status = "done"
          /\ j \in transfers

C22_OrderIndependent ==
    messages =
       {[msg_id |-> ev.id, chat_id |-> ev.chat_id, account_phone |-> "A", text |-> ev.text,
         media_type |-> ev.media, media_file_path |-> NULL, edit_date |-> ev.edit_date,
         has_log |-> TRUE, created_at |-> ev.date] :
           ev \in {e \in OrderEvents : <<e.chat_id, e.id, "A">> \in ingested}}

\* Every message is persisted, the newest having been ingested first and the
\* oldest last.
C22_Witness ==
    /\ Len(message_log) = MaxOrderId
    /\ message_log[1].telegram_msg_id = MaxOrderId
    /\ message_log[MaxOrderId].telegram_msg_id = 1
    /\ Cardinality(messages) = MaxOrderId

StoredSet(tbl, chat_id, msg_id) == {r.data : r \in SetRowsOf(tbl, chat_id, msg_id, "A")}

\* C24: after a message event, new or edited, has been ingested, the stored
\* reactions and the stored entities of the message are exactly those the
\* event carries, also when it carries none while earlier ones are stored:
\* in every state, the refresh of the two sets that the database stretch
\* makes for an event, once its log entry is written, leaves the sets of the
\* event.
C24_SetsEqualEvent ==
    \A ev \in ReactEvents \cup ReactEdits :
       \E sets \in {refresh_sets(reactions, entities, <<>>, ev, "A", "none", ev \in ReactEdits)} :
          /\ StoredSet(sets.reactions, ev.chat_id, ev.id) = ev.reactions
          /\ StoredSet(sets.entities, ev.chat_id, ev.id) = ev.entities

\* A message_log row of the message the row r stands for exists in log.
HasLogEntry(log, r) ==
    \E i \in 1..Len(log) :
       <<log[i].chat_id, log[i].telegram_msg_id, log[i].account_phone>> = Identity(r)

\* C25: a Message row that has at least one log entry has has_log = TRUE, in
\* particular in the state a re-ingestion leaves when it stops after the
\* message upsert (insert_message done, insert_message_log raised).
C25_LoggedRowHasLog ==
    [][\A f \in MsgFeed :
          ProcessMessage(f[1], f[2], "insert_message_log") =>
             \A r \in messages' : HasLogEntry(message_log', r) => r.has_log]_vars

\* The log has no row of the message and created_at of the event, so that
\* the INSERT of its version is accepted.
Accepted(log, ev) ==
    \A k \in 1..Len(log) :
       <<log[k].telegram_msg_id, log[k].chat_id, log[k].account_phone, log[k].created_at>>
          # <<ev.id, ev.chat_id, "A", ev.date>>

\* The version of an event as a message_log row.
Version(ev, edited) ==
    [telegram_msg_id |-> ev.id, chat_id |-> ev.chat_id, account_phone |-> "A",
     text |-> ev.text, media_type |-> ev.media, media_file_path |-> NULL,
     edited |-> edited, edit_date |-> ev.edit_date, created_at |-> ev.date]

\* C26: message_log is append-only.  Every step (ingest of a new or an edited
\* message, backfill, placeholder marking) leaves the rows it had, in their
\* places; a new-message event whose ingestion succeeds appends exactly one
\* row with edited = FALSE, an edit event whose ingestion succeeds exactly one
\* with edited = TRUE, and placeholder marking appends none.
C26_LogAppendOnly ==
    [][/\ Len(message_log') >= Len(message_log)
       /\ SubSeq(message_log', 1, Len(message_log)) = message_log
       /\ \A ev \in OriginalEvents :
             (ProcessMessage("A", ev, "none") /\ Accepted(message_log, ev)) =>
                message_log' = Append(message_log, Version(ev, FALSE))
       /\ \A ev \in EditedEvents :
             (ProcessEditedMessage("A", ev, "none") /\ Accepted(message_log, ev)) =>
                message_log' = Append(message_log, Version(ev, TRUE))
       /\ \A i \in EditIds :
             MarkUnrecoverable(100, i, "A") => message_log' = message_log]_vars

\* The log holds the version of an edit, after it the original of another
\* message, and a third message is a placeholder without any log row.
C26_Witness ==
    /\ Len(message_log) >= 2
    /\ message_log[1].edited
    /\ ~message_log[2].edited
    /\ \E r \in messages :
          /\ r.media_type = "unrecoverable"
          /\ \A k \in 1..Len(message_log) : message_log[k].telegram_msg_id # r.msg_id

\* C27: the gap filling writes a placeholder only for an id of the requested
\* range that the platform did not return; an id the platform returned and
\* whose submission failed has, when it had no row before, no row afterwards,
\* placeholder or other, and lies in a range get_chat_gaps reports.
C27_PlaceholderOnlyForUnreturned ==
    [][\A k \in 1..MaxFillId, failed \in SUBSET {3} :
          FillGap(k, failed) =>
             LET gap_start == gaps.result[k].gap_start
                 gap_end == gaps.result[k].gap_end
             IN  /\ \A r \in messages' \ messages :
                       r.media_type = "unrecoverable" =>
                          /\ r.msg_id \in (gap_start..gap_end) \ platform
                          /\ r.chat_id = 100 /\ r.account_phone = "A"
                 /\ \A i \in ((failed \cap platform) \cap (gap_start..gap_end))
                                \ PersistedOfA(messages) :
                       /\ i \notin PersistedOfA(messages')
                       /\ \E g \in gap_rows(messages', 100, "A") :
                             g.gap_start <= i /\ i <= g.gap_end]_vars

\* The platform holds 3 and not 2 and 4; the range [2, 4] was requested and
\* the submission of 3 failed: 2 and 4 are placeholders, 3 has no row.
C27_Witness ==
    /\ 3 \in platform
    /\ PersistedOfA(messages) = {1, 2, 4, 5}
    /\ \A r \in messages : r.msg_id \in {2, 4} => r.media_type = "unrecoverable"
    /\ \E g \in gap_rows(messages, 100, "A") : g.gap_start = 3 /\ g.gap_end = 3

\* C28: in every interleaving of the ingestion of a real message and the
\* placeholder marking of its identity the row ends as the real message:
\* marking leaves every existing row as it is and adds a row only for an
\* identity without one, an ingestion whose upsert is executed leaves the one
\* row of the identity with the values of the event, also over a placeholder,
\* and a row that is a real message never becomes a placeholder again.
C28_RealMessageWins ==
    [][/\ \A r \in messages :
             r.media_type # "unrecoverable" =>
                \E q \in messages' :
                   Identity(q) = Identity(r) /\ q.media_type # "unrecoverable"
       /\ \A i \in MarkIds :
             MarkUnrecoverable(100, i, "A") =>
                /\ messages \subseteq messages'
                /\ i \in PersistedOfA(messages) => messages' = messages
                /\ \A q \in messages' \ messages : Identity(q) = <<100, i, "A">>
       /\ \A i \in MarkIds, stop \in {"none", "insert_message_log"} :
             ProcessMessage("A", PlatformEvent(100, i), stop) =>
                \E q \in messages' :
                   /\ Identity(q) = <<100, i, "A">>
                   /\ q.media_type # "unrecoverable"
                   /\ q.text = PlatformEvent(100, i).text
                   /\ \A x \in messages' : Identity(x) = Identity(q) => x = q]_vars

\* Ids 1 and 15 are real messages with their log rows and no catch-up was
\* launched: 15 was a placeholder when its message was ingested (the gap to
\* the persisted maximum was 0), and the message replaced it.
C28_Witness ==
    /\ PersistedOfA(messages) = {1, 15}
    /\ \A r \in messages : r.media_type # "unrecoverable" /\ r.has_log
    /\ Len(message_log) = 2
    /\ catchups[<<100, "A">>] = 0

PersistedOf(tbl, chat_id) ==
    {r.msg_id : r \in {x \in tbl : x.chat_id = chat_id /\ x.account_phone = "A"}}

\* A pass from the tables as they are hands over no message and returns no
\* message for a gap.
IdlePass ==
    \A g1 \in get_chat_gaps(messages, 100, "A", 100),
       g2 \in get_chat_gaps(messages, 200, "A", 100) :
       \E d1 \in {dialog_pass(messages, message_log, platform, 100, "A", g1, now)} :
          \E d2 \in {dialog_pass(d1.messages, d1.message_log, platform, 200, "A", g2, now)} :
             /\ d1.count_catchup + d2.count_catchup = 0
             /\ d1.gaps_filled + d2.gaps_filled = 0
             /\ d2.messages = messages
             /\ d2.message_log = message_log

\* get_chat_gaps is empty for every chat, every id from the oldest to the
\* newest persisted id of a chat has a row, every id the platform holds from
\* the oldest persisted id on has one, and a pass is idle.
Converged ==
    /\ \A c \in Chats :
          /\ get_chat_gaps(messages, c, "A", 100) = {<<>>}
          /\ gap_rows(messages, c, "A") = {}
          /\ LET ids == PersistedOf(messages, c)
             IN  /\ \A i \in 1..MaxLoopId :
                       (\E a \in ids : a < i) /\ (\E b \in ids : i < b) => i \in ids
                 /\ \A i \in platform :
                       (ids = {} \/ \E a \in ids : a < i) => i \in ids
    /\ IdlePass

\* C30: with the history of the platform fixed and every submission
\* succeeding, the loop over all chats reaches after finitely many passes a
\* state in which get_chat_gaps is empty for every chat, every id that was
\* missing between or above persisted ids being a message or a placeholder,
\* and from then on every pass hands over no new message and fills no gap.
C30_BackfillConverges == <>[]Converged

\* Chat 100 had the ids 1 and 3 of a platform that holds 1, 2 and 3, chat
\* 200 had the id 1: after the passes the log row of message 2 of chat 100
\* follows that of message 3, chat 200 has all three and the loop has
\* converged.
C30_Witness ==
    /\ Converged
    /\ platform = {1, 2, 3}
    /\ PersistedOf(messages, 100) = {1, 2, 3}
    /\ PersistedOf(messages, 200) = {1, 2, 3}
    /\ \E k \in 2..Len(message_log) :
          /\ message_log[k].telegram_msg_id = 2 /\ message_log[k].chat_id = 100
          /\ \E j \in 1..(k - 1) :
                message_log[j].telegram_msg_id = 3 /\ message_log[j].chat_id = 100
    /\ \E k \in 2..Len(message_log) :
          /\ message_log[k].telegram_msg_id = 2 /\ message_log[k].chat_id = 200
          /\ \E j \in 1..(k - 1) :
                message_log[j].telegram_msg_id = 2 /\ message_log[j].chat_id = 100

\* C31: while a backfill of chat 100 and account A is created and not yet
\* finished, no step creates another backfill for the same chat and account,
\* neither the ingestion of a live message nor the replay of a backfill whose
\* messages have id gaps above the threshold.
C31_NoDuplicateBackfill ==
    [][catchups[<<100, "A">>] >= 1 =>
          catchups'[<<100, "A">>] <= catchups[<<100, "A">>]]_vars

\* The tasks of the scheduler whose worker has not ended.
ActiveTasks == {t \in tasks : ~t.done}

\* C32: within one scheduler no row of download_queue has two active workers:
\* the active tasks have different rows, in the pass that dispatched them
\* through the recent and the FIFO lane and in every later pass, and the row
\* of an active task is in_progress, so that no pending query returns it.
C32_OneWorkerPerItem ==
    /\ \A t \in ActiveTasks, u \in ActiveTasks : t.id = u.id => t = u
    /\ \A t \in ActiveTasks : download_queue[t.id].status = "in_progress"

\* After a later pass: one of the five rows is done and the four others are
\* held by active workers, dispatched through the recent and the FIFO lane.
C32_Witness ==
    /\ \E i \in 1..Len(download_queue) : download_queue[i].status = "done"
    /\ \E t \in ActiveTasks : t.tid \in tasks_recent
    /\ \E t \in ActiveTasks : t.tid \notin tasks_recent
    /\ Cardinality(ActiveTasks) = 4

DoneWithFile(q, file_unique_id) ==
    {i \in 1..Len(q) : /\ q[i].file_unique_id = file_unique_id
                        /\ q[i].status = "done"
                        /\ q[i].path # NULL}

RowsOfB(tbl, q) ==
    [messages |-> {r \in tbl : r.account_phone = "B"},
     download_queue |-> {q[i] : i \in {j \in 1..Len(q) : q[j].account_phone = "B"}}]

\* C35: a step of account A (the ingestion of a message by A's listener, the
\* startup sweep, a pass or the end of a worker of A's scheduler) changes no
\* row of messages and no row of download_queue that belongs to account B,
\* also when both accounts hold the message of the same chat_id and msg_id.
C35_AccountPartition ==
    [][\/ RowsOfB(messages', download_queue') = RowsOfB(messages, download_queue)
       \/ \E f \in Feed : f[1] = "B" /\ ProcessMessage("B", f[2], "none")]_vars

\* Row a precedes row b in the ORDER BY of a lane: file_size ascending with
\* NULL last, then created_at and then id, both descending in the recent lane
\* and ascending in the FIFO lane.
Precedes(a, b, recent) ==
    LET known(r) == Len(r.file_size) = 1
    IN  \/ known(a) /\ ~known(b)
        \/ known(a) /\ known(b) /\ a.file_size[1] < b.file_size[1]
        \/ /\ a.file_size = b.file_size
           /\ \/ IF recent THEN a.created_at > b.created_at ELSE a.created_at < b.created_at
              \/ /\ a.created_at = b.created_at
                 /\ IF recent THEN a.id > b.id ELSE a.id < b.id

C37_TimedSweepFrame ==
    [][\A n \in SweepMinutes, a \in Accounts :
          TimedSweep(n, a) =>
             \A i \in 1..Len(download_queue) :
                LET old == download_queue[i]
                    new == download_queue'[i]
                    stuck == /\ old.status = "in_progress"
                             /\ old.account_phone = a
                             /\ now - old.updated_at > n
                IN  /\ stuck => new.status = "pending"
                    /\ ~stuck => new = old
                    /\ new.attempts = old.attempts
                    /\ new.path = old.path
                    /\ new.error = old.error]_vars

\* At minute 4 row 1 of account A was reset by a sweep, row 2 of account A,
\* updated at minute 2, is in_progress still, and so is row 3 of account B,
\* updated at minute 0.
C37_Witness ==
    /\ now = 4
    /\ download_queue[1].account_phone = "A" /\ download_queue[1].status = "pending"
    /\ download_queue[1].attempts = 1 /\ download_queue[1].updated_at = 4
    /\ download_queue[2].account_phone = "A" /\ download_queue[2].status = "in_progress"
    /\ download_queue[2].updated_at = 2
    /\ download_queue[3].account_phone = "B" /\ download_queue[3].status = "in_progress"
    /\ download_queue[3].updated_at = 0

\* C38: on a database that lacks the chat_preferences table, the
\* download_queue table or its account_phone column, the process ingests no
\* message and its scheduler dispatches no download.
C38_NothingOnIncompleteSchema ==
    schema # FullSchema => messages = {} /\ message_log = <<>> /\ tasks = {}

\* C39: once handler has processed the event of a message successfully, that
\* is once its call of _process_message has returned, the last_id the
\* listener keeps for the chat is at least the id of the message.
C39_LastIdAfterSuccess ==
    \A c \in Calls :
        (c[1] = "handler" /\ submissions[c].pc = "returned") => state[100] >= c[2]

\* What C40 asks of the rows of a queue: a done row has a path and no error,
\* a failed row has an error text of 1 to 500 characters.
RowShape(q) ==
    \A i \in 1..Len(q) :
       /\ q[i].status = "done" => q[i].path # NULL /\ q[i].error = NULL
       /\ q[i].status = "failed" => q[i].error.len > 0 /\ q[i].error.len <= 500

\* C40: in every state of the download queue a done row has a path and no
\* error and a failed row has an error of at most 500 characters; and a row
\* that has never been done has no path: a row enters the queue without a
\* path, and a step that changes the path of a row leaves the row done.
C40_QueueRowShape ==
    [][/\ RowShape(download_queue)
       /\ RowShape(download_queue')
       /\ \A i \in 1..Len(download_queue') :
             IF i > Len(download_queue)
             THEN download_queue'[i].path = NULL
             ELSE download_queue'[i].path # download_queue[i].path =>
                     download_queue'[i].status = "done"]_vars

\* A row is done; another row, downloaded once and dispatched again after the
\* sweep of another scheduler, was then failed by the worker that ended last,
\* with an error text cut to 500 characters, and keeps the path.
C40_Witness ==
    \E i, j \in 1..Len(download_queue) :
       /\ download_queue[i].status = "done"
       /\ download_queue[j].status = "failed"
       /\ download_queue[j].path # NULL
       /\ download_queue[j].error.len = 500
====
